---- MODULE Spec2Model ----
(***************************************************************************)
(* pm3 daemon: PID-file guard, endpoint, accept loop, connection handlers, *)
(* process table behind one readers-writer lock, graceful shutdown.        *)
(* Modelled from src/src/daemon.rs and src/src/process.rs; the parts of    *)
(* the crate that are not in the source tree (pid.rs, graceful_stop) are   *)
(* modelled from spec.md sections 4.3 and 4.5.                             *)
(***************************************************************************)
EXTENDS Integers, Sequences, FiniteSets, TLC

\* ------------------------------------------------------------------ bounds
\* daemon processes that call run() on the one data_dir
MaxDaemons == 2
\* client connections opened over the whole behaviour
MaxConns == 3
\* connections open at the same time
MaxActive == 2

\* bytes the children write to the log files, all files together
MaxBytes == 3
\* the largest `lines` of a Log request
MaxLines == 2

Daemons == 1..MaxDaemons
Conns == 1..MaxConns

None == "none"
\* process names a client may send; the manifest (configs of every Start)
\* declares web and worker, ghost is declared nowhere
Names == {"web", "worker", "ghost"}
Manifest == {"web", "worker"}
\* Option<Vec<String>> arguments of Start / Stop / Restart
NameLists ==
    { <<"web">>, <<"worker">>, <<"ghost">>, <<"web", "worker">>,
      <<"worker", "web">>, <<"web", "web">>, <<"web", "ghost">>,
      <<"ghost", "web">> }
\* Option<T>: None is the empty sequence, Some(x) the sequence of x alone
NoNames == <<>>
Some(x) == <<x>>
NameOpts == {NoNames} \cup { Some(l) : l \in NameLists }
\* no file at a path, no holder of the lock
NoFile == 0
Free == 0
ShutdownPass == -1

VARIABLES
    dpc,        \* dpc[d]: where daemon d is in run()
    dres,       \* dres[d]: what run() returned
    cause,      \* cause[d]: why the accept loop was left
    pidFile,    \* <data_dir>/pm3.pid: NoFile or the PID written in it
    sockFile,   \* <data_dir>/pm3.sock: NoFile or the daemon whose listener it is
    shutdown,   \* shutdown[d]: value of the shutdown watch channel
    table,      \* table[d][name]: the ProcessTable behind the RwLock
    lock,       \* lock[d]: holder of the write side of the RwLock
    work,       \* work[d]: locals of the task that holds the write lock
    child,      \* child[pid]: the OS view of every child ever spawned
    cpc,        \* cpc[c]: where connection c / its handler task is
    creq,       \* creq[c]: the request the handler decoded (its variant)
    cdaemon,    \* cdaemon[c]: daemon whose listener the client reached
    cresp,      \* cresp[c]: the response computed for c
    lastMut,    \* lastMut[d]: last completed Start/Stop/Restart (history)
    restartReqs,\* restartReqs[d][n]: successful Restart requests naming n
    restartOccs,\* restartOccs[d][n]: occurrences of n in their names
    logs,       \* logs[n][s]: bytes of <data_dir>/logs/<n>.out and <n>.err
    out,        \* out[c]: frames of the Log stream written on c so far
    lw,         \* lw[c]: locals of handle_log / handle_log_follow on c
    closed      \* closed[c]: the client closed its end of c

vars == << dpc, dres, cause, pidFile, sockFile, shutdown, table, lock, work,
           child, cpc, creq, cdaemon, cresp, lastMut, restartReqs,
           restartOccs, logs, out, lw, closed >>

\* ----------------------------------------------------------------- helpers
Range(s) == { s[i] : i \in 1..Len(s) }

Min(S) == CHOOSE x \in S : \A y \in S : x <= y

\* every order in which a HashMap with key set S may be iterated
Perms(S) ==
    { s \in [1..Cardinality(S) -> S] :
        \A i, j \in 1..Cardinality(S) : i # j => s[i] # s[j] }

\* number of positions of sequence s that hold n
Occurrences(n, s) == Cardinality({ i \in 1..Len(s) : s[i] = n })

\* first element of names that is not in present, or None
FirstMissing(names, present) ==
    LET bad == { i \in 1..Len(names) : names[i] \notin present }
    IN  IF bad = {} THEN None ELSE names[Min(bad)]

\* ------------------------------------------------------------ process table
NoEntry == [pid |-> 0, status |-> "Absent", restarts |-> 0, reaped |-> FALSE]
M_EmptyTable_kept ==
    [n \in Names |->
        IF n = "web"
        THEN [pid |-> 0, status |-> "Stopped", restarts |-> 0, reaped |-> TRUE]
        ELSE NoEntry]
EmptyTable == [n \in Names |-> NoEntry]
Keys(t) == { n \in Names : t[n].status # "Absent" }

\* ManagedProcess as spawn_process returns it
M_spawn_process_stopped(pid) ==
    [pid |-> pid, status |-> "Stopped", restarts |-> 0, reaped |-> FALSE]
spawn_process(pid) ==
    [pid |-> pid, status |-> "Online", restarts |-> 0, reaped |-> FALSE]

\* ProcessInfo: child.id() is None once the child was waited for
to_process_info(n, e) ==
    [name |-> n, pid |-> IF e.reaped THEN 0 ELSE e.pid,
     status |-> e.status, restarts |-> e.restarts]

\* the processes of a ProcessList response
M_ListInfos_online(t) ==
    { to_process_info(n, t[n]) : n \in { k \in Keys(t) : t[k].status = "Online" } }
ListInfos(t) == { to_process_info(n, t[n]) : n \in Keys(t) }

\* zero-signal probe kill(pid, 0): succeeds until the child is reaped
Probe(ch, pid) == pid \in 1..Len(ch) /\ ch[pid].st \in {"running", "zombie"}

\* ---------------------------------------------------------------- responses
Resp(type, msg, names, infos) ==
    [type |-> type, msg |-> msg, names |-> names, infos |-> infos]
NoResp == Resp("None", "", <<>>, {})
\* message templates; the names they are formatted with are in .names
MsgAlreadyRunning == "daemon is already running"
MsgNotInConfigs == "process '{}' not found in configs"
MsgNotFound == "process not found: {}"
ContainsNotFound(msg) == msg \in {MsgNotInConfigs, MsgNotFound}

NoWork ==
    [op |-> None, targets |-> <<>>, i |-> 1, gs |-> "none", acc |-> <<>>,
     old |-> 0, pre |-> EmptyTable, names |-> NoNames, repeat |-> FALSE]
\* lastMut: the last Start/Stop/Restart that completed was this Stop, with
\* Success
NoMut == [stop |-> FALSE, names |-> NoNames]

\* ----------------------------------------------------------------- log files
\* bytes a child writes; a log file is a sequence of them
Bytes == {"x", "\n"}
Streams == {"out", "err"}
EmptyLogs == [n \in Names |-> [s \in Streams |-> <<>>]]
\* LogTail offsets of every name
NoTails == [n \in Names |-> [s \in Streams |-> 0]]
NoLog ==
    [name |-> NoNames, lines |-> 0, follow |-> FALSE, names |-> <<>>,
     i |-> 1, phase |-> "out", prefix |-> FALSE, pos |-> NoTails,
     start |-> NoTails]

\* -------------------------------------------------------------------- Init
Init ==
    /\ dpc = [d \in Daemons |-> "start"]
    /\ dres = [d \in Daemons |-> None]
    /\ cause = [d \in Daemons |-> None]
    /\ pidFile = NoFile
    /\ sockFile = NoFile
    /\ shutdown = [d \in Daemons |-> FALSE]
    /\ table = [d \in Daemons |-> EmptyTable]
    /\ lock = [d \in Daemons |-> Free]
    /\ work = [d \in Daemons |-> NoWork]
    /\ child = <<>>
    /\ cpc = [c \in Conns |-> "idle"]
    /\ creq = [c \in Conns |-> None]
    /\ cdaemon = [c \in Conns |-> 0]
    /\ cresp = [c \in Conns |-> NoResp]
    /\ lastMut = [d \in Daemons |-> NoMut]
    /\ restartReqs = [d \in Daemons |-> [n \in Names |-> 0]]
    /\ restartOccs = [d \in Daemons |-> [n \in Names |-> 0]]
    /\ logs = EmptyLogs
    /\ out = [c \in Conns |-> <<>>]
    /\ lw = [c \in Conns |-> NoLog]
    /\ closed = [c \in Conns |-> FALSE]

\* ------------------------------------------------------ PID-file guard, run
\* the daemon process exists from the call of run() until run() returns
\* (main returns the result of run, main.rs 11-13)
Alive(d) == dpc[d] \notin {"start", "returned"}

\* pid::is_daemon_running: the PID file exists and its PID is a live process
is_daemon_running == pidFile \in Daemons /\ Alive(pidFile)

\* run, the guard: bail when a daemon is running
M_RunGuard_never(running) == "continue"
RunGuard(running) == IF running THEN "bail" ELSE "continue"

DaemonVarsUnchanged ==
    UNCHANGED << table, lock, work, child, cpc, creq, cdaemon, cresp,
                 lastMut, restartReqs, restartOccs, shutdown, logs, out, lw,
                 closed >>

M_run_guard_cleans(d) ==
    /\ dpc[d] = "start"
    /\ IF RunGuard(is_daemon_running) = "bail"
       THEN /\ dpc' = [dpc EXCEPT ![d] = "returned"]
            /\ dres' = [dres EXCEPT ![d] = MsgAlreadyRunning]
            /\ sockFile' = NoFile
       ELSE /\ dpc' = [dpc EXCEPT ![d] = "write_pid"]
            /\ dres' = dres
            /\ sockFile' = sockFile
    /\ UNCHANGED << cause, pidFile >>
    /\ DaemonVarsUnchanged
run_guard(d) ==
    /\ dpc[d] = "start"
    /\ IF RunGuard(is_daemon_running) = "bail"
       THEN /\ dpc' = [dpc EXCEPT ![d] = "returned"]
            /\ dres' = [dres EXCEPT ![d] = MsgAlreadyRunning]
       ELSE /\ dpc' = [dpc EXCEPT ![d] = "write_pid"]
            /\ dres' = dres
    /\ UNCHANGED << cause, pidFile, sockFile >>
    /\ DaemonVarsUnchanged

\* pid::write_pid_file: one atomic write that fails with AlreadyRunning when
\* a live daemon guard is detected
write_pid_file(d) ==
    /\ dpc[d] = "write_pid"
    /\ IF is_daemon_running
       THEN /\ dpc' = [dpc EXCEPT ![d] = "returned"]
            /\ dres' = [dres EXCEPT ![d] = "AlreadyRunning"]
            /\ pidFile' = pidFile
       ELSE /\ dpc' = [dpc EXCEPT ![d] = "rm_stale"]
            /\ dres' = dres
            /\ pidFile' = d
    /\ UNCHANGED << cause, sockFile >>
    /\ DaemonVarsUnchanged

\* run: remove the stale socket file if it exists
M_remove_stale_socket_skip(d) ==
    /\ dpc[d] = "rm_stale"
    /\ dpc' = [dpc EXCEPT ![d] = "bind"]
    /\ UNCHANGED << dres, cause, pidFile, sockFile >>
    /\ DaemonVarsUnchanged
remove_stale_socket(d) ==
    /\ dpc[d] = "rm_stale"
    /\ sockFile' = NoFile
    /\ dpc' = [dpc EXCEPT ![d] = "bind"]
    /\ UNCHANGED << dres, cause, pidFile >>
    /\ DaemonVarsUnchanged

\* run: UnixListener::bind, then the shutdown watch and the empty table
bind(d) ==
    /\ dpc[d] = "bind"
    /\ IF sockFile = NoFile
       THEN /\ sockFile' = d
            /\ dpc' = [dpc EXCEPT ![d] = "loop"]
            /\ dres' = dres
       ELSE /\ sockFile' = sockFile
            /\ dpc' = [dpc EXCEPT ![d] = "returned"]
            /\ dres' = [dres EXCEPT ![d] = "bind failed"]
    /\ UNCHANGED << cause, pidFile >>
    /\ DaemonVarsUnchanged

\* --------------------------------------------------------------- accept loop
ConnVarsUnchanged ==
    UNCHANGED << dpc, dres, cause, pidFile, sockFile >>

\* run_accept_loop, the accept branch: a client connected to the endpoint,
\* the loop spawns its handler task (connections are numbered in this order)
accept(d, c) ==
    /\ dpc[d] = "loop"
    /\ sockFile = d
    /\ cpc[c] = "idle"
    /\ \A b \in Conns : b < c => cpc[b] # "idle"
    /\ Cardinality({ b \in Conns : cpc[b] \notin {"idle", "done", "failed"} })
          < MaxActive
    /\ cpc' = [cpc EXCEPT ![c] = "accepted"]
    /\ cdaemon' = [cdaemon EXCEPT ![c] = d]
    /\ UNCHANGED << creq, cresp, table, lock, work, child, shutdown, lastMut,
                    restartReqs, restartOccs, logs, out, lw, closed >>
    /\ ConnVarsUnchanged

\* run_accept_loop, the shutdown_rx.changed() branch
M_observe_shutdown_continues(d) ==
    /\ dpc[d] = "loop"
    /\ shutdown[d]
    /\ UNCHANGED << dpc, cause, dres, pidFile, sockFile >>
    /\ DaemonVarsUnchanged
observe_shutdown(d) ==
    /\ dpc[d] = "loop"
    /\ shutdown[d]
    /\ dpc' = [dpc EXCEPT ![d] = "shut_lock"]
    /\ cause' = [cause EXCEPT ![d] = "kill"]
    /\ UNCHANGED << dres, pidFile, sockFile >>
    /\ DaemonVarsUnchanged

\* run_accept_loop, the signal_shutdown() branch: SIGTERM or SIGINT arrived
signal_shutdown(d) ==
    /\ dpc[d] = "loop"
    /\ dpc' = [dpc EXCEPT ![d] = "shut_lock"]
    /\ cause' = [cause EXCEPT ![d] = "signal"]
    /\ UNCHANGED << dres, pidFile, sockFile >>
    /\ DaemonVarsUnchanged

\* -------------------------------------- accept loop, one select! at a time
\* The main task in run_accept_loop, with the life of the signal_shutdown()
\* future of each select! made explicit:
\*   "loop"         suspended in select!, the listeners of this iteration's
\*                  signal_shutdown() registered, nothing ready
\*   "loop_sig"     suspended in select!, a signal was handed to the listeners
\*   "loop_missed"  suspended in select!, a signal was delivered earlier and
\*                  no living listener holds it
\*   "spawn"        in the body of the accept branch; select! has dropped the
\*                  other branches' futures, the signal listeners with them
\*   "spawn_sig"    the same, and a signal was delivered that no listener holds
InSelect == {"loop", "loop_sig", "loop_missed"}
InAcceptBranch == {"spawn", "spawn_sig"}

\* SIGTERM or SIGINT is delivered to the daemon process: the runtime's signal
\* driver hands it to the listeners that exist at that moment
after_signal(at) ==
    IF at \in InSelect THEN "loop_sig" ELSE "spawn_sig"

sig_deliver(d) ==
    /\ dpc[d] \in {"loop", "loop_missed", "spawn"}
    /\ dpc' = [dpc EXCEPT ![d] = after_signal(dpc[d])]
    /\ UNCHANGED << dres, cause, pidFile, sockFile >>
    /\ DaemonVarsUnchanged

\* select!: listener.accept() is ready and its branch is the one taken (of
\* several ready branches select! takes any); the futures of the other
\* branches are dropped
select_accept(d) ==
    /\ dpc[d] \in InSelect
    /\ sockFile = d
    /\ \E c \in Conns : cpc[c] = "idle"
    /\ Cardinality({ b \in Conns : cpc[b] \notin {"idle", "done", "failed"} })
          < MaxActive
    /\ dpc' = [dpc EXCEPT ![d] = IF dpc[d] = "loop" THEN "spawn"
                                 ELSE "spawn_sig"]
    /\ UNCHANGED << dres, cause, pidFile, sockFile >>
    /\ DaemonVarsUnchanged

\* the accept branch: tokio::spawn(handle_connection), then the next
\* iteration's select! with a new signal_shutdown() future
spawn_handler(d, c) ==
    /\ dpc[d] \in InAcceptBranch
    /\ cpc[c] = "idle"
    /\ \A b \in Conns : b < c => cpc[b] # "idle"
    /\ cpc' = [cpc EXCEPT ![c] = "accepted"]
    /\ cdaemon' = [cdaemon EXCEPT ![c] = d]
    /\ dpc' = [dpc EXCEPT ![d] = IF dpc[d] = "spawn" THEN "loop"
                                 ELSE "loop_missed"]
    /\ UNCHANGED << creq, cresp, table, lock, work, child, shutdown, lastMut,
                    restartReqs, restartOccs, logs, out, lw, closed >>
    /\ UNCHANGED << dres, cause, pidFile, sockFile >>

\* select!: the signal_shutdown() branch is taken
select_signal(d) ==
    /\ dpc[d] = "loop_sig"
    /\ dpc' = [dpc EXCEPT ![d] = "shut_lock"]
    /\ cause' = [cause EXCEPT ![d] = "signal"]
    /\ UNCHANGED << dres, pidFile, sockFile >>
    /\ DaemonVarsUnchanged

\* select!: the shutdown_rx.changed() branch is taken
select_shutdown(d) ==
    /\ dpc[d] \in InSelect
    /\ shutdown[d]
    /\ dpc' = [dpc EXCEPT ![d] = "shut_lock"]
    /\ cause' = [cause EXCEPT ![d] = "kill"]
    /\ UNCHANGED << dres, pidFile, sockFile >>
    /\ DaemonVarsUnchanged

\* ------------------------------------------------------------------ dispatch
\* a handler task runs as long as its daemon process exists
Running(c, at) == cpc[c] = at /\ Alive(cdaemon[c])

HandlerVarsUnchanged ==
    UNCHANGED << dpc, dres, cause, pidFile, sockFile, cdaemon, logs, lw,
                 closed >>

StepVarsUnchanged == HandlerVarsUnchanged /\ creq' = creq /\ out' = out

\* handle_connection: the request line is read and decoded
Read(c, op) ==
    /\ Running(c, "accepted")
    /\ creq' = [creq EXCEPT ![c] = op]

\* dispatch, Request::List: snapshot under the read lock
M_dispatch_list_unlocked(c) ==
    LET d == cdaemon[c] IN
    /\ Read(c, "List")
    /\ cresp' = [cresp EXCEPT ![c] =
                    Resp("ProcessList", "", <<>>, ListInfos(table[d]))]
    /\ cpc' = [cpc EXCEPT ![c] = "respond"]
    /\ UNCHANGED << table, lock, work, child, shutdown, lastMut, restartReqs,
                    restartOccs, out >>
    /\ HandlerVarsUnchanged
M_dispatch_list_signals(c) ==
    LET d == cdaemon[c] IN
    /\ Read(c, "List")
    /\ lock[d] = Free
    /\ cresp' = [cresp EXCEPT ![c] =
                    Resp("ProcessList", "", <<>>, ListInfos(table[d]))]
    /\ cpc' = [cpc EXCEPT ![c] = "respond"]
    /\ shutdown' = [shutdown EXCEPT ![d] = TRUE]
    /\ UNCHANGED << table, lock, work, child, lastMut, restartReqs,
                    restartOccs, out >>
    /\ HandlerVarsUnchanged
dispatch_list(c) ==
    LET d == cdaemon[c] IN
    /\ Read(c, "List")
    /\ lock[d] = Free
    /\ cresp' = [cresp EXCEPT ![c] =
                    Resp("ProcessList", "", <<>>, ListInfos(table[d]))]
    /\ cpc' = [cpc EXCEPT ![c] = "respond"]
    /\ UNCHANGED << table, lock, work, child, shutdown, lastMut, restartReqs,
                    restartOccs, out >>
    /\ HandlerVarsUnchanged

\* dispatch, Request::Kill: signal the shutdown watch
dispatch_kill(c) ==
    LET d == cdaemon[c] IN
    /\ Read(c, "Kill")
    /\ shutdown' = [shutdown EXCEPT ![d] = TRUE]
    /\ cresp' = [cresp EXCEPT ![c] =
                    Resp("Success", "daemon shutting down", <<>>, {})]
    /\ cpc' = [cpc EXCEPT ![c] = "respond"]
    /\ UNCHANGED << table, lock, work, child, lastMut, restartReqs,
                    restartOccs, out >>
    /\ HandlerVarsUnchanged

\* handle_connection: write the encoded response, shut the write side down
write_response(c) ==
    /\ Running(c, "respond")
    /\ cpc' = [cpc EXCEPT ![c] = "done"]
    /\ creq' = [creq EXCEPT ![c] = None]
    /\ cresp' = [cresp EXCEPT ![c] = NoResp]
    /\ out' = [out EXCEPT ![c] = <<>>]
    /\ lw' = [lw EXCEPT ![c] = NoLog]
    /\ UNCHANGED << table, lock, work, child, shutdown, lastMut,
                    restartReqs, restartOccs >>
    /\ UNCHANGED << dpc, dres, cause, pidFile, sockFile, cdaemon, logs,
                    closed >>

\* ----------------------------------------------- tasks holding the write lock
\* a reaped child is gone: the OS keeps nothing of it
Reaped(ch) == [st |-> "reaped", sigs |-> <<>>, owner |-> ch.owner]
M_SendSignal_kill(ch, pid, sig) == [ch EXCEPT ![pid].sigs = Append(@, "KILL")]
SendSignal(ch, pid, sig) == [ch EXCEPT ![pid].sigs = Append(@, sig)]

BeginWork(d, op, names, ts, rep) ==
    [op |-> op, targets |-> ts, i |-> 1, gs |-> "none", acc |-> <<>>,
     old |-> 0, pre |-> table[d], names |-> names, repeat |-> rep]

\* the handler returns its Response: the write guard is dropped
Finish(c, op, names, resp, ok) ==
    LET d == cdaemon[c] IN
    /\ cresp' = [cresp EXCEPT ![c] = resp]
    /\ cpc' = [cpc EXCEPT ![c] = "respond"]
    /\ lastMut' = [lastMut EXCEPT ![d] =
                      IF op = "Stop" /\ ok
                      THEN [stop |-> TRUE, names |-> names] ELSE NoMut]

Holds(c) == Running(c, "run") /\ lock[cdaemon[c]] = c

\* ---------------------------------------------------------------- handle_start
\* handle_start: to_start, or the first requested name that configs lacks
M_start_resolve_skip(names) ==
    LET InConfigs(n) == n \in Manifest
    IN  [missing |-> None,
         orders |-> IF names = NoNames THEN Perms(Manifest)
                    ELSE {SelectSeq(names[1], InConfigs)}]
start_resolve(names) ==
    IF names = NoNames
    THEN [missing |-> None, orders |-> Perms(Manifest)]
    ELSE [missing |-> FirstMissing(names[1], Manifest), orders |-> {names[1]}]

\* handle_start: the Success message
M_start_message_none(started) ==
    Resp("Success", "everything is already running", <<>>, {})
start_message(started) ==
    IF started = <<>>
    THEN Resp("Success", "everything is already running", <<>>, {})
    ELSE Resp("Success", "started: {}", started, {})

handle_start_begin(c, names) ==
    LET d == cdaemon[c]
        r == start_resolve(names)
    IN
    /\ Read(c, "Start")
    /\ \/ /\ r.missing # None
          /\ cresp' = [cresp EXCEPT ![c] =
                          Resp("Error", MsgNotInConfigs, <<r.missing>>, {})]
          /\ cpc' = [cpc EXCEPT ![c] = "respond"]
          /\ UNCHANGED << lock, work >>
       \/ /\ r.missing = None
          /\ lock[d] = Free
          /\ \E ts \in r.orders :
                work' = [work EXCEPT ![d] = BeginWork(d, "Start", names, ts, FALSE)]
          /\ lock' = [lock EXCEPT ![d] = c]
          /\ cpc' = [cpc EXCEPT ![c] = "run"]
          /\ cresp' = cresp
    /\ UNCHANGED << table, child, shutdown, lastMut, restartReqs, restartOccs,
                    out >>
    /\ HandlerVarsUnchanged

\* handle_start: table.contains_key(&name)
M_contains_key_never(t, n) == FALSE
M_contains_key_online(t, n) == n \in Keys(t) /\ t[n].status # "Stopped"
contains_key(t, n) == n \in Keys(t)

\* handle_start: one iteration of the loop over to_start
handle_start_step(c) ==
    LET d == cdaemon[c]
        w == work[d]
        n == w.targets[w.i]
        pid == Len(child) + 1
    IN
    /\ Holds(c)
    /\ w.op = "Start"
    /\ w.i <= Len(w.targets)
    /\ IF contains_key(table[d], n)
       THEN /\ work' = [work EXCEPT ![d].i = w.i + 1]
            /\ UNCHANGED << table, child >>
       ELSE /\ child' = Append(child, [st |-> "running", sigs |-> <<>>,
                                       owner |-> d])
            /\ table' = [table EXCEPT ![d][n] = spawn_process(pid)]
            /\ work' = [work EXCEPT ![d].i = w.i + 1,
                                    ![d].acc = Append(w.acc, n)]
    /\ UNCHANGED << lock, cpc, cresp, shutdown, lastMut, restartReqs,
                    restartOccs >>
    /\ StepVarsUnchanged

\* process::spawn_process errors: parse_command rejects the command string,
\* or the operating system refuses to launch the program
SpawnErrors == {"InvalidCommand", "SpawnFailed"}
MsgFailedToStart == "failed to start '{}': {}"

\* handle_start: spawn_process returned Err for the target at hand; the
\* handler returns the Error at once
M_handle_start_spawn_fails_inserts(c, err) ==
    LET d == cdaemon[c]
        w == work[d]
        n == w.targets[w.i]
    IN
    /\ Holds(c)
    /\ w.op = "Start"
    /\ w.i <= Len(w.targets)
    /\ ~contains_key(table[d], n)
    /\ Finish(c, "Start", w.names,
              Resp("Error", MsgFailedToStart, <<n, err>>, {}), FALSE)
    /\ lock' = [lock EXCEPT ![d] = Free]
    /\ work' = [work EXCEPT ![d] = NoWork]
    /\ table' = [table EXCEPT ![d][n] = M_spawn_process_stopped(0)]
    /\ UNCHANGED << child, shutdown, restartReqs, restartOccs >>
    /\ StepVarsUnchanged
handle_start_spawn_fails(c, err) ==
    LET d == cdaemon[c]
        w == work[d]
        n == w.targets[w.i]
    IN
    /\ Holds(c)
    /\ w.op = "Start"
    /\ w.i <= Len(w.targets)
    /\ ~contains_key(table[d], n)
    /\ Finish(c, "Start", w.names,
              Resp("Error", MsgFailedToStart, <<n, err>>, {}), FALSE)
    /\ lock' = [lock EXCEPT ![d] = Free]
    /\ work' = [work EXCEPT ![d] = NoWork]
    /\ UNCHANGED << table, child, shutdown, restartReqs, restartOccs >>
    /\ StepVarsUnchanged

handle_start_done(c) ==
    LET d == cdaemon[c]
        w == work[d]
    IN
    /\ Holds(c)
    /\ w.op = "Start"
    /\ w.i > Len(w.targets)
    /\ Finish(c, "Start", w.names, start_message(w.acc), TRUE)
    /\ lock' = [lock EXCEPT ![d] = Free]
    /\ work' = [work EXCEPT ![d] = NoWork]
    /\ UNCHANGED << table, child, shutdown, restartReqs, restartOccs >>
    /\ StepVarsUnchanged

\* ----------------------------------------------------------------- handle_stop
\* handle_stop: the targets, or the first requested name the table lacks
M_stop_targets_skip(names, keys) ==
    LET InTable(n) == n \in keys
    IN  [missing |-> None,
         orders |-> IF names = NoNames THEN Perms(keys)
                    ELSE {SelectSeq(names[1], InTable)}]
M_stop_targets_all(names, keys) ==
    [missing |-> IF names = NoNames THEN None
                 ELSE FirstMissing(names[1], keys),
     orders |-> Perms(keys)]
stop_targets(names, keys) ==
    IF names = NoNames
    THEN [missing |-> None, orders |-> Perms(keys)]
    ELSE [missing |-> FirstMissing(names[1], keys), orders |-> {names[1]}]

\* handle_stop: an entry that is already Stopped is skipped
M_needs_stop_always(status) == TRUE
needs_stop(status) == status # "Stopped"

handle_stop_begin(c, names) ==
    LET d == cdaemon[c]
        r == stop_targets(names, Keys(table[d]))
        rep == lastMut[d] = [stop |-> TRUE, names |-> names]
    IN
    /\ Read(c, "Stop")
    /\ lock[d] = Free
    /\ IF r.missing # None
       THEN /\ Finish(c, "Stop", names,
                      Resp("Error", MsgNotFound, <<r.missing>>, {}), FALSE)
            /\ UNCHANGED << lock, work >>
       ELSE /\ \E ts \in r.orders :
                  work' = [work EXCEPT ![d] = BeginWork(d, "Stop", names, ts, rep)]
            /\ lock' = [lock EXCEPT ![d] = c]
            /\ cpc' = [cpc EXCEPT ![c] = "run"]
            /\ UNCHANGED << cresp, lastMut >>
    /\ UNCHANGED << table, child, shutdown, restartReqs, restartOccs, out >>
    /\ HandlerVarsUnchanged

\* handle_stop: one iteration of the loop over targets, up to the first
\* suspension point of graceful_stop
handle_stop_step(c) ==
    LET d == cdaemon[c]
        w == work[d]
        n == w.targets[w.i]
        e == table[d][n]
    IN
    /\ Holds(c)
    /\ w.op = "Stop"
    /\ w.gs = "none"
    /\ w.i <= Len(w.targets)
    /\ IF ~needs_stop(e.status)
       THEN /\ work' = [work EXCEPT ![d].i = w.i + 1]
            /\ child' = child
       ELSE IF e.status = "Stopped"
       THEN /\ work' = [work EXCEPT ![d].i = w.i + 1,
                                    ![d].acc = Append(w.acc, n)]
            /\ child' = child
       ELSE /\ child' = SendSignal(child, e.pid, "TERM")
            /\ work' = [work EXCEPT ![d].gs = "term"]
    /\ UNCHANGED << table, lock, cpc, cresp, shutdown, lastMut, restartReqs,
                    restartOccs >>
    /\ StepVarsUnchanged

handle_stop_done(c) ==
    LET d == cdaemon[c]
        w == work[d]
    IN
    /\ Holds(c)
    /\ w.op = "Stop"
    /\ w.i > Len(w.targets)
    /\ Finish(c, "Stop", w.names,
              Resp("Success", "stopped: {}", w.acc, {}), TRUE)
    /\ lock' = [lock EXCEPT ![d] = Free]
    /\ work' = [work EXCEPT ![d] = NoWork]
    /\ UNCHANGED << table, child, shutdown, restartReqs, restartOccs >>
    /\ StepVarsUnchanged

\* -------------------------------------------------------------- handle_restart
M_restart_targets_all(names, keys) ==
    [missing |-> IF names = NoNames THEN None
                 ELSE FirstMissing(names[1], keys),
     orders |-> Perms(keys)]
restart_targets(names, keys) ==
    IF names = NoNames
    THEN [missing |-> None, orders |-> Perms(keys)]
    ELSE [missing |-> FirstMissing(names[1], keys), orders |-> {names[1]}]

\* handle_restart: new_managed.restarts = old_restarts + 1
M_next_restarts_reset(old_restarts) == 0
next_restarts(old_restarts) == old_restarts + 1

handle_restart_begin(c, names) ==
    LET d == cdaemon[c]
        r == restart_targets(names, Keys(table[d]))
    IN
    /\ Read(c, "Restart")
    /\ lock[d] = Free
    /\ IF r.missing # None
       THEN /\ Finish(c, "Restart", names,
                      Resp("Error", MsgNotFound, <<r.missing>>, {}), FALSE)
            /\ UNCHANGED << lock, work >>
       ELSE /\ \E ts \in r.orders :
                  work' = [work EXCEPT ![d] = BeginWork(d, "Restart", names, ts,
                                                   FALSE)]
            /\ lock' = [lock EXCEPT ![d] = c]
            /\ cpc' = [cpc EXCEPT ![c] = "run"]
            /\ UNCHANGED << cresp, lastMut >>
    /\ UNCHANGED << table, child, shutdown, restartReqs, restartOccs, out >>
    /\ HandlerVarsUnchanged

\* handle_restart: one iteration, up to the first suspension point of
\* graceful_stop or to the call of spawn_process
handle_restart_step(c) ==
    LET d == cdaemon[c]
        w == work[d]
        n == w.targets[w.i]
        e == table[d][n]
    IN
    /\ Holds(c)
    /\ w.op = "Restart"
    /\ w.gs = "none"
    /\ w.i <= Len(w.targets)
    /\ IF e.status # "Stopped"
       THEN /\ child' = SendSignal(child, e.pid, "TERM")
            /\ work' = [work EXCEPT ![d].gs = "term", ![d].old = e.restarts]
       ELSE /\ child' = child
            /\ work' = [work EXCEPT ![d].gs = "spawn", ![d].old = e.restarts]
    /\ UNCHANGED << table, lock, cpc, cresp, shutdown, lastMut, restartReqs,
                    restartOccs >>
    /\ StepVarsUnchanged

\* handle_restart: spawn_process, set restarts, replace the table entry
handle_restart_spawn(c) ==
    LET d == cdaemon[c]
        w == work[d]
        n == w.targets[w.i]
        pid == Len(child) + 1
    IN
    /\ Holds(c)
    /\ w.op = "Restart"
    /\ w.gs = "spawn"
    /\ child' = Append(child, [st |-> "running", sigs |-> <<>>, owner |-> d])
    /\ table' = [table EXCEPT ![d][n] =
                    [spawn_process(pid) EXCEPT
                        !.restarts = next_restarts(w.old)]]
    /\ work' = [work EXCEPT ![d].gs = "none", ![d].i = w.i + 1,
                            ![d].acc = Append(w.acc, n)]
    /\ UNCHANGED << lock, cpc, cresp, shutdown, lastMut, restartReqs,
                    restartOccs >>
    /\ StepVarsUnchanged

handle_restart_done(c) ==
    LET d == cdaemon[c]
        w == work[d]
    IN
    /\ Holds(c)
    /\ w.op = "Restart"
    /\ w.gs = "none"
    /\ w.i > Len(w.targets)
    /\ Finish(c, "Restart", w.names,
              Resp("Success", "restarted: {}", w.acc, {}), TRUE)
    /\ lock' = [lock EXCEPT ![d] = Free]
    /\ work' = [work EXCEPT ![d] = NoWork]
    /\ restartReqs' = [restartReqs EXCEPT ![d] =
          [n \in Names |-> @[n] + IF n \in Range(w.targets) THEN 1 ELSE 0]]
    /\ restartOccs' = [restartOccs EXCEPT ![d] =
          [n \in Names |-> @[n] + Occurrences(n, w.targets)]]
    /\ UNCHANGED << table, child, shutdown >>
    /\ StepVarsUnchanged

\* ------------------------------------------------ graceful_stop, the children
\* graceful_stop: the wait for the child's exit returned; reap, Stopped.
\* The caller then runs on to its next suspension point.
graceful_stop_wait(d) ==
    LET w == work[d]
        n == w.targets[w.i]
        e == table[d][n]
    IN
    /\ Alive(d)
    /\ lock[d] # Free
    /\ w.gs \in {"term", "kill"}
    /\ child[e.pid].st = "zombie"
    /\ child' = [child EXCEPT ![e.pid] = Reaped(@)]
    /\ table' = [table EXCEPT ![d][n].status = "Stopped",
                              ![d][n].reaped = TRUE]
    /\ work' = [work EXCEPT
          ![d].gs = IF w.op = "Restart" THEN "spawn" ELSE "none",
          ![d].i = IF w.op = "Restart" THEN w.i ELSE w.i + 1,
          ![d].acc = IF w.op = "Stop" THEN Append(w.acc, n) ELSE w.acc]
    /\ UNCHANGED << lock, cpc, cresp, shutdown, lastMut, restartReqs,
                    restartOccs >>
    /\ StepVarsUnchanged

\* graceful_stop: the kill_timeout deadline passed with the child alive
M_graceful_stop_timeout_nokill(d) ==
    LET w == work[d]
        n == w.targets[w.i]
        e == table[d][n]
    IN
    /\ Alive(d)
    /\ lock[d] # Free
    /\ w.gs = "term"
    /\ child[e.pid].st = "running"
    /\ work' = [work EXCEPT ![d].gs = "kill"]
    /\ UNCHANGED << table, child, lock, cpc, cresp, shutdown, lastMut,
                    restartReqs, restartOccs >>
    /\ StepVarsUnchanged
graceful_stop_timeout(d) ==
    LET w == work[d]
        n == w.targets[w.i]
        e == table[d][n]
    IN
    /\ Alive(d)
    /\ lock[d] # Free
    /\ w.gs = "term"
    /\ child[e.pid].st = "running"
    /\ child' = [SendSignal(child, e.pid, "KILL") EXCEPT ![e.pid].st = "zombie"]
    /\ work' = [work EXCEPT ![d].gs = "kill"]
    /\ UNCHANGED << table, lock, cpc, cresp, shutdown, lastMut, restartReqs,
                    restartOccs >>
    /\ StepVarsUnchanged

\* a child exits, on SIGTERM or by itself; it stays a zombie until waited for
child_exit(p) ==
    /\ child[p].st = "running"
    /\ child' = [child EXCEPT ![p].st = "zombie"]
    /\ UNCHANGED << table, lock, work, cpc, cresp, shutdown, lastMut,
                    restartReqs, restartOccs >>
    /\ StepVarsUnchanged

\* ------------------------------------------------- graceful_stop, the failures
\* StopFailed: graceful_stop returns Err because the signal could not be
\* delivered ("signal", before anything was sent) or because the wait for the
\* child's exit failed ("wait", after SIGTERM or SIGKILL was sent); the entry
\* is left as it was
StopFailures == {"signal", "wait"}
MsgFailedToStop == "failed to stop '{}': {}"
MsgFailedToRestart == "failed to restart '{}': {}"

\* graceful_stop of the entry at hand of d's lock holder can fail in this way
StopFailsAt(d, at) ==
    LET w == work[d]
        e == table[d][w.targets[w.i]]
    IN
    /\ w.i <= Len(w.targets)
    /\ IF at = "signal"
       THEN w.gs = "none" /\ e.status # "Stopped"
       ELSE w.gs \in {"term", "kill"}

\* handle_stop: graceful_stop returned Err; the handler returns the Error at
\* once and drops the write guard
M_handle_stop_fails_continues(c, at) ==
    LET d == cdaemon[c]
        w == work[d]
    IN
    /\ Holds(c)
    /\ w.op = "Stop"
    /\ StopFailsAt(d, at)
    /\ work' = [work EXCEPT ![d].gs = "none", ![d].i = w.i + 1]
    /\ UNCHANGED << table, child, lock, cpc, cresp, lastMut, shutdown,
                    restartReqs, restartOccs >>
    /\ StepVarsUnchanged
handle_stop_fails(c, at) ==
    LET d == cdaemon[c]
        w == work[d]
        n == w.targets[w.i]
    IN
    /\ Holds(c)
    /\ w.op = "Stop"
    /\ StopFailsAt(d, at)
    /\ Finish(c, "Stop", w.names,
              Resp("Error", MsgFailedToStop, <<n, "StopFailed">>, {}), FALSE)
    /\ lock' = [lock EXCEPT ![d] = Free]
    /\ work' = [work EXCEPT ![d] = NoWork]
    /\ UNCHANGED << table, child, shutdown, restartReqs, restartOccs >>
    /\ StepVarsUnchanged

\* handle_restart: graceful_stop of the old child returned Err
handle_restart_stop_fails(c, at) ==
    LET d == cdaemon[c]
        w == work[d]
        n == w.targets[w.i]
    IN
    /\ Holds(c)
    /\ w.op = "Restart"
    /\ StopFailsAt(d, at)
    /\ Finish(c, "Restart", w.names,
              Resp("Error", MsgFailedToStop, <<n, "StopFailed">>, {}), FALSE)
    /\ lock' = [lock EXCEPT ![d] = Free]
    /\ work' = [work EXCEPT ![d] = NoWork]
    /\ UNCHANGED << table, child, shutdown, restartReqs, restartOccs >>
    /\ StepVarsUnchanged

\* handle_restart: spawn_process returned Err for the replacement; the entry
\* of the old child stays in the table as graceful_stop left it
M_handle_restart_spawn_fails_counts(c, err) ==
    LET d == cdaemon[c]
        w == work[d]
        n == w.targets[w.i]
    IN
    /\ Holds(c)
    /\ w.op = "Restart"
    /\ w.gs = "spawn"
    /\ Finish(c, "Restart", w.names,
              Resp("Error", MsgFailedToRestart, <<n, err>>, {}), FALSE)
    /\ lock' = [lock EXCEPT ![d] = Free]
    /\ work' = [work EXCEPT ![d] = NoWork]
    /\ table' = [table EXCEPT ![d][n].restarts = next_restarts(w.old)]
    /\ UNCHANGED << child, shutdown, restartReqs, restartOccs >>
    /\ StepVarsUnchanged
handle_restart_spawn_fails(c, err) ==
    LET d == cdaemon[c]
        w == work[d]
        n == w.targets[w.i]
    IN
    /\ Holds(c)
    /\ w.op = "Restart"
    /\ w.gs = "spawn"
    /\ Finish(c, "Restart", w.names,
              Resp("Error", MsgFailedToRestart, <<n, err>>, {}), FALSE)
    /\ lock' = [lock EXCEPT ![d] = Free]
    /\ work' = [work EXCEPT ![d] = NoWork]
    /\ UNCHANGED << table, child, shutdown, restartReqs, restartOccs >>
    /\ StepVarsUnchanged

\* run, the shutdown pass: `let _ = managed.graceful_stop().await` discards
\* the Err and the loop goes on to the next entry; acc keeps the names whose
\* stop failed
shutdown_stop_fails(d, at) ==
    LET w == work[d]
        n == w.targets[w.i]
    IN
    /\ dpc[d] = "shut_stop"
    /\ StopFailsAt(d, at)
    /\ work' = [work EXCEPT ![d].gs = "none", ![d].i = w.i + 1,
                            ![d].acc = Append(w.acc, n)]
    /\ UNCHANGED << dpc, dres, cause, pidFile, sockFile, table, lock, child,
                    cpc, creq, cdaemon, cresp, shutdown, lastMut, restartReqs,
                    restartOccs, logs, out, lw, closed >>

\* --------------------------------------------------------- run, after the loop
shutdown_lock(d) ==
    /\ dpc[d] = "shut_lock"
    /\ lock[d] = Free
    /\ \E ts \in Perms(Keys(table[d])) :
          work' = [work EXCEPT ![d] = BeginWork(d, "Shutdown", NoNames, ts, FALSE)]
    /\ lock' = [lock EXCEPT ![d] = ShutdownPass]
    /\ dpc' = [dpc EXCEPT ![d] = "shut_stop"]
    /\ UNCHANGED << dres, cause, pidFile, sockFile, table, child, cpc, creq,
                    cdaemon, cresp, shutdown, lastMut, restartReqs,
                    restartOccs, logs, out, lw, closed >>

\* run: graceful_stop of the next entry (a Stopped one returns at once)
shutdown_step(d) ==
    LET w == work[d]
        n == w.targets[w.i]
        e == table[d][n]
    IN
    /\ dpc[d] = "shut_stop"
    /\ w.gs = "none"
    /\ w.i <= Len(w.targets)
    /\ IF e.status = "Stopped"
       THEN /\ work' = [work EXCEPT ![d].i = w.i + 1]
            /\ child' = child
       ELSE /\ child' = SendSignal(child, e.pid, "TERM")
            /\ work' = [work EXCEPT ![d].gs = "term"]
    /\ UNCHANGED << dpc, dres, cause, pidFile, sockFile, table, lock, cpc,
                    creq, cdaemon, cresp, shutdown, lastMut, restartReqs,
                    restartOccs, logs, out, lw, closed >>

shutdown_done(d) ==
    LET w == work[d] IN
    /\ dpc[d] = "shut_stop"
    /\ w.gs = "none"
    /\ w.i > Len(w.targets)
    /\ lock' = [lock EXCEPT ![d] = Free]
    /\ work' = [work EXCEPT ![d] = NoWork]
    /\ dpc' = [dpc EXCEPT ![d] = "rm_sock"]
    /\ UNCHANGED << dres, cause, pidFile, sockFile, table, child, cpc, creq,
                    cdaemon, cresp, shutdown, lastMut, restartReqs,
                    restartOccs, logs, out, lw, closed >>

\* run, cleanup: fs::remove_file(paths.socket_file())
M_socket_after_cleanup_kept(sock) == sock
socket_after_cleanup(sock) == NoFile

remove_socket(d) ==
    /\ dpc[d] = "rm_sock"
    /\ sockFile' = socket_after_cleanup(sockFile)
    /\ dpc' = [dpc EXCEPT ![d] = "rm_pid"]
    /\ UNCHANGED << dres, cause, pidFile >>
    /\ DaemonVarsUnchanged

\* run_accept_loop's result: Err from `accept_result?`, Ok(()) after a break
loop_result(why) == IF why = "accept" THEN "accept failed" ELSE "ok"

\* run, cleanup: pid::remove_pid_file, then return the accept loop's result
remove_pid_file(d) ==
    /\ dpc[d] = "rm_pid"
    /\ pidFile' = NoFile
    /\ dpc' = [dpc EXCEPT ![d] = "returned"]
    /\ dres' = [dres EXCEPT ![d] = loop_result(cause[d])]
    /\ UNCHANGED << cause, sockFile >>
    /\ DaemonVarsUnchanged

\* run: UnixListener::bind(&socket_path)? fails for a reason of the file
\* system (permissions, path length, a file created meanwhile): run returns
\* the error at once
bind_fails(d) ==
    /\ dpc[d] = "bind"
    /\ dpc' = [dpc EXCEPT ![d] = "returned"]
    /\ dres' = [dres EXCEPT ![d] = "bind failed"]
    /\ UNCHANGED << cause, pidFile, sockFile >>
    /\ DaemonVarsUnchanged

\* run_accept_loop: `accept_result?` returns the error of listener.accept()
\* to run, which goes on to the shutdown pass and the cleanup
accept_fails(d) ==
    /\ dpc[d] = "loop"
    /\ dpc' = [dpc EXCEPT ![d] = "shut_lock"]
    /\ cause' = [cause EXCEPT ![d] = "accept"]
    /\ UNCHANGED << dres, pidFile, sockFile >>
    /\ DaemonVarsUnchanged

\* the daemon process is killed (SIGKILL, power loss): nothing of run executes
\* any more, its files stay behind
crash(d) ==
    /\ Alive(d)
    /\ dpc' = [dpc EXCEPT ![d] = "returned"]
    /\ dres' = [dres EXCEPT ![d] = "killed"]
    /\ UNCHANGED << cause, pidFile, sockFile >>
    /\ DaemonVarsUnchanged

\* ------------------------------------------- handle_connection, rejected lines
\* read_line returned no byte: the client closed without sending
LineEOF == ""
\* request lines that protocol::decode_request rejects: a bare newline, a
\* malformed line, an unknown variant
BadLines == {"\n", "junk\n", "{\"type\":\"Nope\"}\n"}
decode_request(line) ==
    IF line \in BadLines \cup {LineEOF} THEN "Err" ELSE "Ok"

\* handle_connection: line.is_empty()
M_closes_silently_never(line) == FALSE
closes_silently(line) == line = LineEOF

\* handle_connection on a line that is empty or does not decode: return
\* Ok(()) without writing, or return the decode error without writing
handle_connection_reject(c, line) ==
    /\ Running(c, "accepted")
    /\ creq' = [creq EXCEPT ![c] = line]
    /\ IF closes_silently(line)
       THEN cpc' = [cpc EXCEPT ![c] = "done"]
       ELSE /\ decode_request(line) = "Err"
            /\ cpc' = [cpc EXCEPT ![c] = "failed"]
    /\ UNCHANGED << table, lock, work, child, shutdown, lastMut, restartReqs,
                    restartOccs, cresp, out >>
    /\ HandlerVarsUnchanged

\* ------------------------------------------------------------------ log tailer
\* requests Log{name, lines, follow}: name is an Option<String>
LogNameOpts == {NoNames, Some("web"), Some("ghost")}

\* BufReader::read_line at offset pos: the bytes up to and including the next
\* "\n", or up to the end of the file
read_line(file, pos) ==
    LET nl == { i \in (pos + 1)..Len(file) : file[i] = "\n" }
    IN  SubSeq(file, pos + 1, IF nl = {} THEN Len(file) ELSE Min(nl))

\* the loop `read_line until 0 bytes` from offset pos: each line as read, with
\* the offset it was read at
RECURSIVE read_lines(_, _)
read_lines(file, pos) ==
    IF pos >= Len(file)
    THEN <<>>
    ELSE LET raw == read_line(file, pos)
         IN  <<[raw |-> raw, off |-> pos]>>
                \o read_lines(file, pos + Len(raw))

\* str::trim_end_matches(ch)
RECURSIVE trim_end_matches(_, _)
trim_end_matches(str, ch) ==
    IF str # <<>> /\ str[Len(str)] = ch
    THEN trim_end_matches(SubSeq(str, 1, Len(str) - 1), ch)
    ELSE str

\* line.trim_end_matches('\n').trim_end_matches('\r')
trimmed(raw) == trim_end_matches(trim_end_matches(raw, "\n"), "\r")

\* read_last_lines: an absent or empty file gives nothing, else every line is
\* read and the last n are kept
M_read_last_lines_first(file, n) ==
    LET all == read_lines(file, 0)
    IN  SubSeq(all, 1, IF Len(all) > n THEN n ELSE Len(all))
read_last_lines(file, n) ==
    IF Len(file) = 0
    THEN <<>>
    ELSE LET all == read_lines(file, 0)
             start == IF Len(all) > n THEN Len(all) - n ELSE 0
         IN  SubSeq(all, start + 1, Len(all))

\* Response::LogLine; file and off record where the line was read
LogLine(name, line, n, s, off) ==
    [type |-> "LogLine", name |-> name, line |-> line, file |-> <<n, s>>,
     off |-> off]

\* LogLine.name: Some(name), Some(name + ":err") or None
frame_name(prefix, n, s) ==
    IF ~prefix THEN NoNames
    ELSE IF s = "out" THEN <<n>> ELSE <<n, ":err">>

\* the LogLine frames of lines read from stream s of process n
Frames(prefix, n, s, lines) ==
    [k \in 1..Len(lines) |->
        LogLine(frame_name(prefix, n, s), trimmed(lines[k].raw), n, s,
                lines[k].off)]

\* handle_log: show_prefix
M_show_prefix_multi(name, names) == Len(names) > 1
show_prefix(name, names) == name = NoNames \/ Len(names) > 1

MsgNone == ""
MsgNoProcesses == "no processes to show logs for"

LogVarsUnchanged ==
    UNCHANGED << dpc, dres, cause, pidFile, sockFile, cdaemon, table, lock,
                 work, child, shutdown, lastMut, restartReqs, restartOccs >>

\* handle_log: the target names, under the read lock; the early return when
\* no name was given and the table is empty
M_handle_log_begin_holds(c, name, lines, follow) ==
    LET d == cdaemon[c] IN
    /\ Read(c, "Log")
    /\ lock[d] = Free
    /\ \E ns \in IF name = NoNames THEN Perms(Keys(table[d])) ELSE {name} :
          /\ lw' = [lw EXCEPT ![c] =
                       [NoLog EXCEPT !.name = name, !.lines = lines,
                                     !.follow = follow, !.names = ns,
                                     !.prefix = show_prefix(name, ns)]]
          /\ IF ns = <<>> /\ name = NoNames
             THEN /\ cresp' = [cresp EXCEPT ![c] =
                                  Resp("Success", MsgNoProcesses, <<>>, {})]
                  /\ cpc' = [cpc EXCEPT ![c] = "respond"]
                  /\ lock' = lock
             ELSE /\ cresp' = cresp
                  /\ cpc' = [cpc EXCEPT ![c] =
                                IF follow THEN "follow_init" ELSE "log_hist"]
                  /\ lock' = [lock EXCEPT ![d] = c]
    /\ UNCHANGED << logs, out, closed >>
    /\ UNCHANGED << dpc, dres, cause, pidFile, sockFile, cdaemon, table,
                    work, child, shutdown, lastMut, restartReqs, restartOccs >>
handle_log_begin(c, name, lines, follow) ==
    LET d == cdaemon[c] IN
    /\ Read(c, "Log")
    /\ lock[d] = Free
    /\ \E ns \in IF name = NoNames THEN Perms(Keys(table[d])) ELSE {name} :
          /\ lw' = [lw EXCEPT ![c] =
                       [NoLog EXCEPT !.name = name, !.lines = lines,
                                     !.follow = follow, !.names = ns,
                                     !.prefix = show_prefix(name, ns)]]
          /\ IF ns = <<>> /\ name = NoNames
             THEN /\ cresp' = [cresp EXCEPT ![c] =
                                  Resp("Success", MsgNoProcesses, <<>>, {})]
                  /\ cpc' = [cpc EXCEPT ![c] = "respond"]
             ELSE /\ cresp' = cresp
                  /\ cpc' = [cpc EXCEPT ![c] =
                                IF follow THEN "follow_init" ELSE "log_hist"]
    /\ UNCHANGED << logs, out, closed >>
    /\ LogVarsUnchanged

\* handle_log, historical mode: the last lines of one file of the next
\* target are read and sent, stdout before stderr
handle_log_read(c) ==
    LET w == lw[c]
        n == w.names[w.i]
        lines == read_last_lines(logs[n][w.phase], w.lines)
    IN
    /\ Running(c, "log_hist")
    /\ w.i <= Len(w.names)
    /\ out' = [out EXCEPT ![c] = @ \o Frames(w.prefix, n, w.phase, lines)]
    /\ lw' = [lw EXCEPT ![c].phase = IF w.phase = "out" THEN "err" ELSE "out",
                        ![c].i = IF w.phase = "out" THEN w.i ELSE w.i + 1]
    /\ UNCHANGED << cpc, creq, cresp, logs, closed >>
    /\ LogVarsUnchanged

\* handle_log, historical mode: the terminal Success{message: None}
handle_log_end(c) ==
    LET w == lw[c] IN
    /\ Running(c, "log_hist")
    /\ w.i > Len(w.names)
    /\ cresp' = [cresp EXCEPT ![c] = Resp("Success", MsgNone, <<>>, {})]
    /\ cpc' = [cpc EXCEPT ![c] = "respond"]
    /\ UNCHANGED << creq, logs, out, lw, closed >>
    /\ LogVarsUnchanged

\* handle_log_follow: the starting offset of a file is its current length
M_snapshot_pos_zero(file) == 0
snapshot_pos(file) == Len(file)

\* handle_log_follow: the tails are initialised from the files' lengths
handle_log_follow_init(c) ==
    LET w == lw[c]
        snap == [n \in Names |-> [s \in Streams |->
                    IF n \in Range(w.names)
                    THEN snapshot_pos(logs[n][s]) ELSE 0]]
    IN
    /\ Running(c, "follow_init")
    /\ lw' = [lw EXCEPT ![c].pos = snap,
                        ![c].start = [n \in Names |-> [s \in Streams |->
                            IF n \in Range(w.names)
                            THEN Len(logs[n][s]) ELSE 0]]]
    /\ cpc' = [cpc EXCEPT ![c] = "follow_poll"]
    /\ UNCHANGED << creq, cresp, logs, out, closed >>
    /\ LogVarsUnchanged

\* handle_log_follow, one file in a poll cycle: when the file has grown past
\* the stored offset, the lines from the offset to the end
poll_lines(file, pos) ==
    IF Len(file) > pos THEN read_lines(file, pos) ELSE <<>>

\* tail.stdout_pos += bytes_read, for every line read
RECURSIVE advance(_, _)
advance(pos, lines) ==
    IF lines = <<>> THEN pos
    ELSE advance(pos + Len(Head(lines).raw), Tail(lines))

\* the frames of one poll cycle over the tails in this order, stdout before
\* stderr for each tail
RECURSIVE poll_frames(_, _, _)
poll_frames(order, prefix, pos) ==
    IF order = <<>> THEN <<>>
    ELSE LET n == Head(order)
         IN  Frames(prefix, n, "out", poll_lines(logs[n]["out"], pos[n]["out"]))
             \o Frames(prefix, n, "err",
                       poll_lines(logs[n]["err"], pos[n]["err"]))
             \o poll_frames(Tail(order), prefix, pos)

\* handle_log_follow: one poll cycle; a send to a client that closed fails
\* and ends the handler with that error
handle_log_follow_poll(c) ==
    LET w == lw[c] IN
    /\ Running(c, "follow_poll")
    /\ \E order \in Perms(Range(w.names)) :
          LET fr == poll_frames(order, w.prefix, w.pos) IN
          IF fr # <<>> /\ closed[c]
          THEN /\ cpc' = [cpc EXCEPT ![c] = "failed"]
               /\ UNCHANGED << out, lw >>
          ELSE /\ cpc' = [cpc EXCEPT ![c] = "follow_sleep"]
               /\ out' = [out EXCEPT ![c] = @ \o fr]
               /\ lw' = [lw EXCEPT ![c].pos =
                            [n \in Names |-> [s \in Streams |->
                                IF n \in Range(w.names)
                                THEN advance(w.pos[n][s],
                                        poll_lines(logs[n][s], w.pos[n][s]))
                                ELSE w.pos[n][s]]]]
    /\ UNCHANGED << creq, cresp, logs, closed >>
    /\ LogVarsUnchanged

\* handle_log_follow: the 100 ms sleep is over
handle_log_follow_sleep(c) ==
    /\ Running(c, "follow_sleep")
    /\ cpc' = [cpc EXCEPT ![c] = "follow_poll"]
    /\ UNCHANGED << creq, cresp, logs, out, lw, closed >>
    /\ LogVarsUnchanged

\* bytes in all log files
TotalBytes ==
    LET RECURSIVE Sum(_)
        Sum(S) == IF S = {} THEN 0
                  ELSE LET f == CHOOSE f \in S : TRUE
                       IN  Len(logs[f[1]][f[2]]) + Sum(S \ {f})
    IN  Sum(Names \X Streams)

\* a running child appends a byte to its stdout or stderr log file
log_append(n, s, b) ==
    /\ TotalBytes < MaxBytes
    /\ \E d \in Daemons :
          /\ table[d][n].status # "Absent"
          /\ ~table[d][n].reaped
          /\ child[table[d][n].pid].st = "running"
    /\ logs' = [logs EXCEPT ![n][s] = Append(@, b)]
    /\ UNCHANGED << cpc, creq, cresp, out, lw, closed >>
    /\ LogVarsUnchanged

\* the client of a follow stream closes the connection
client_close(c) ==
    /\ cpc[c] \in {"follow_init", "follow_poll", "follow_sleep"}
    /\ ~closed[c]
    /\ closed' = [closed EXCEPT ![c] = TRUE]
    /\ UNCHANGED << cpc, creq, cresp, logs, out, lw >>
    /\ LogVarsUnchanged

\* ------------------------------------------------ handle_connection, I/O errors
\* where a handler task is when an I/O operation of its connection can fail:
\* read_line of the request, the write of the response and the shutdown of
\* the write side, send_response in the historical loop, and the file and
\* socket operations of a follow poll
IoFailPoints == {"accepted", "respond", "log_hist", "follow_poll"}

\* handle_connection returns the Err of a failed I/O operation through `?`;
\* the task spawned for the connection prints it and ends
M_handler_io_fails_shuts_down(c) ==
    /\ cpc[c] \in IoFailPoints
    /\ Alive(cdaemon[c])
    /\ cpc' = [cpc EXCEPT ![c] = "failed"]
    /\ shutdown' = [shutdown EXCEPT ![cdaemon[c]] = TRUE]
    /\ UNCHANGED << creq, cresp, logs, out, lw, closed >>
    /\ UNCHANGED << dpc, dres, cause, pidFile, sockFile, cdaemon, table, lock,
                    work, child, lastMut, restartReqs, restartOccs >>
handler_io_fails(c) ==
    /\ cpc[c] \in IoFailPoints
    /\ Alive(cdaemon[c])
    /\ cpc' = [cpc EXCEPT ![c] = "failed"]
    /\ UNCHANGED << creq, cresp, logs, out, lw, closed >>
    /\ LogVarsUnchanged

\* -------------------------------------------------------------- specification
\* requests and daemons of the two specifications
MainDaemons == {1}
GuardNames == {NoNames}

\* one daemon, every request: the process table and its handlers
Next ==
    \/ \E d \in MainDaemons : run_guard(d)
    \/ \E d \in MainDaemons : write_pid_file(d)
    \/ \E d \in MainDaemons : remove_stale_socket(d)
    \/ \E d \in MainDaemons : bind(d)
    \/ \E d \in MainDaemons, c \in Conns : accept(d, c)
    \/ \E d \in MainDaemons : observe_shutdown(d)
    \/ \E d \in MainDaemons : signal_shutdown(d)
    \/ \E c \in Conns : dispatch_list(c)
    \/ \E c \in Conns : dispatch_kill(c)
    \/ \E c \in Conns : write_response(c)
    \/ \E c \in Conns, names \in NameOpts : handle_start_begin(c, names)
    \/ \E c \in Conns : handle_start_step(c)
    \/ \E c \in Conns : handle_start_done(c)
    \/ \E c \in Conns, names \in NameOpts : handle_stop_begin(c, names)
    \/ \E c \in Conns : handle_stop_step(c)
    \/ \E c \in Conns : handle_stop_done(c)
    \/ \E c \in Conns, names \in NameOpts : handle_restart_begin(c, names)
    \/ \E c \in Conns : handle_restart_step(c)
    \/ \E c \in Conns : handle_restart_spawn(c)
    \/ \E c \in Conns : handle_restart_done(c)
    \/ \E d \in MainDaemons : graceful_stop_wait(d)
    \/ \E d \in MainDaemons : graceful_stop_timeout(d)
    \/ \E p \in 1..Len(child) : child_exit(p)
    \/ \E d \in MainDaemons : shutdown_lock(d)
    \/ \E d \in MainDaemons : shutdown_step(d)
    \/ \E d \in MainDaemons : shutdown_done(d)
    \/ \E d \in MainDaemons : remove_socket(d)
    \/ \E d \in MainDaemons : remove_pid_file(d)

Spec == Init /\ [][Next]_vars

\* several daemon processes racing for the data_dir; clients send Start
\* (all of the manifest), List and Kill
NextGuard ==
    \/ \E d \in Daemons : run_guard(d)
    \/ \E d \in Daemons : write_pid_file(d)
    \/ \E d \in Daemons : remove_stale_socket(d)
    \/ \E d \in Daemons : bind(d)
    \/ \E d \in Daemons, c \in Conns : accept(d, c)
    \/ \E d \in Daemons : observe_shutdown(d)
    \/ \E d \in Daemons : signal_shutdown(d)
    \/ \E c \in Conns : dispatch_list(c)
    \/ \E c \in Conns : dispatch_kill(c)
    \/ \E c \in Conns : write_response(c)
    \/ \E c \in Conns, names \in GuardNames : handle_start_begin(c, names)
    \/ \E c \in Conns : handle_start_step(c)
    \/ \E c \in Conns : handle_start_done(c)
    \/ \E d \in Daemons : graceful_stop_wait(d)
    \/ \E d \in Daemons : graceful_stop_timeout(d)
    \/ \E p \in 1..Len(child) : child_exit(p)
    \/ \E d \in Daemons : shutdown_lock(d)
    \/ \E d \in Daemons : shutdown_step(d)
    \/ \E d \in Daemons : shutdown_done(d)
    \/ \E d \in Daemons : remove_socket(d)
    \/ \E d \in Daemons : remove_pid_file(d)

SpecGuard == Init /\ [][NextGuard]_vars

\* requests of the two log specifications
LogConns == 1..2
ManifestOnly == {NoNames}
ShortLogs == {<<"web", "out", "\n">>}
\* Start of the whole manifest, or of web alone
TailStarts == {NoNames, Some(<<"web">>)}

\* one daemon; clients send Start, Log, lines that do not decode or nothing;
\* web writes empty lines to its stdout log
NextLog ==
    \/ \E d \in MainDaemons : run_guard(d)
    \/ \E d \in MainDaemons : write_pid_file(d)
    \/ \E d \in MainDaemons : remove_stale_socket(d)
    \/ \E d \in MainDaemons : bind(d)
    \/ \E d \in MainDaemons, c \in LogConns : accept(d, c)
    \/ \E d \in MainDaemons : signal_shutdown(d)
    \/ \E c \in LogConns, line \in BadLines \cup {LineEOF} :
          handle_connection_reject(c, line)
    \/ \E c \in LogConns : write_response(c)
    \/ \E c \in LogConns, names \in ManifestOnly : handle_start_begin(c, names)
    \/ \E c \in LogConns : handle_start_step(c)
    \/ \E c \in LogConns : handle_start_done(c)
    \/ \E c \in LogConns, name \in LogNameOpts, follow \in BOOLEAN :
          handle_log_begin(c, name, MaxLines, follow)
    \/ \E c \in LogConns : handle_log_read(c)
    \/ \E c \in LogConns : handle_log_end(c)
    \/ \E c \in LogConns : handle_log_follow_init(c)
    \/ \E c \in LogConns : handle_log_follow_poll(c)
    \/ \E c \in LogConns : handle_log_follow_sleep(c)
    \/ \E c \in LogConns : client_close(c)
    \/ \E a \in ShortLogs : log_append(a[1], a[2], a[3])
    \/ \E d \in MainDaemons : graceful_stop_wait(d)
    \/ \E d \in MainDaemons : graceful_stop_timeout(d)
    \/ \E p \in 1..Len(child) : child_exit(p)
    \/ \E d \in MainDaemons : shutdown_lock(d)
    \/ \E d \in MainDaemons : shutdown_step(d)
    \/ \E d \in MainDaemons : shutdown_done(d)
    \/ \E d \in MainDaemons : remove_socket(d)
    \/ \E d \in MainDaemons : remove_pid_file(d)

SpecLog == Init /\ [][NextLog]_vars

\* the steps a spawned connection task takes by itself once its request is read
HandlerStep(c) ==
    \/ write_response(c)
    \/ handle_start_step(c)
    \/ handle_start_done(c)
    \/ handle_log_read(c)
    \/ handle_log_end(c)
    \/ handle_log_follow_init(c)
    \/ handle_log_follow_poll(c)
    \/ handle_log_follow_sleep(c)

\* the steps of run that wait for no client and no signal: start-up, and the
\* shutdown pass with its graceful_stop waits
DaemonStep(d) ==
    \/ run_guard(d)
    \/ write_pid_file(d)
    \/ remove_stale_socket(d)
    \/ bind(d)
    \/ graceful_stop_wait(d)
    \/ graceful_stop_timeout(d)
    \/ shutdown_lock(d)
    \/ shutdown_step(d)
    \/ shutdown_done(d)
    \/ remove_socket(d)
    \/ remove_pid_file(d)

\* the tokio runtime keeps polling every ready task and the main task; clients,
\* signals and the children's output are under no obligation
SpecLogFair ==
    /\ SpecLog
    /\ \A c \in LogConns : WF_vars(HandlerStep(c))
    /\ \A d \in MainDaemons : WF_vars(DaemonStep(d))

\* one daemon that keeps serving; a client starts the manifest, another sends
\* Log; the children write any bytes to their log files
NextTail ==
    \/ \E d \in MainDaemons : run_guard(d)
    \/ \E d \in MainDaemons : write_pid_file(d)
    \/ \E d \in MainDaemons : remove_stale_socket(d)
    \/ \E d \in MainDaemons : bind(d)
    \/ \E d \in MainDaemons, c \in LogConns : accept(d, c)
    \/ \E c \in LogConns : write_response(c)
    \/ \E c \in LogConns, names \in TailStarts : handle_start_begin(c, names)
    \/ \E c \in LogConns : handle_start_step(c)
    \/ \E c \in LogConns : handle_start_done(c)
    \/ \E c \in LogConns, name \in LogNameOpts, lines \in 0..MaxLines,
          follow \in BOOLEAN : handle_log_begin(c, name, lines, follow)
    \/ \E c \in LogConns : handle_log_read(c)
    \/ \E c \in LogConns : handle_log_end(c)
    \/ \E c \in LogConns : handle_log_follow_init(c)
    \/ \E c \in LogConns : handle_log_follow_poll(c)
    \/ \E c \in LogConns : handle_log_follow_sleep(c)
    \/ \E n \in Names, s \in Streams, b \in Bytes : log_append(n, s, b)

SpecTail == Init /\ [][NextTail]_vars

\* daemons started one after another on the data_dir, each of which may be
\* killed or fail to bind or to accept; clients send List and Kill
NextLife ==
    \/ \E d \in Daemons : run_guard(d)
    \/ \E d \in Daemons : write_pid_file(d)
    \/ \E d \in Daemons : remove_stale_socket(d)
    \/ \E d \in Daemons : bind(d)
    \/ \E d \in Daemons : bind_fails(d)
    \/ \E d \in Daemons, c \in Conns : accept(d, c)
    \/ \E d \in Daemons : accept_fails(d)
    \/ \E d \in Daemons : observe_shutdown(d)
    \/ \E d \in Daemons : signal_shutdown(d)
    \/ \E d \in Daemons : crash(d)
    \/ \E c \in Conns : dispatch_list(c)
    \/ \E c \in Conns : dispatch_kill(c)
    \/ \E c \in Conns : write_response(c)
    \/ \E d \in Daemons : shutdown_lock(d)
    \/ \E d \in Daemons : shutdown_done(d)
    \/ \E d \in Daemons : remove_socket(d)
    \/ \E d \in Daemons : remove_pid_file(d)

SpecLife == Init /\ [][NextLife]_vars

\* one daemon that keeps serving; clients send Start with any names, and
\* List; a spawn may fail
NextStart ==
    \/ \E d \in MainDaemons : run_guard(d)
    \/ \E d \in MainDaemons : write_pid_file(d)
    \/ \E d \in MainDaemons : remove_stale_socket(d)
    \/ \E d \in MainDaemons : bind(d)
    \/ \E d \in MainDaemons, c \in Conns : accept(d, c)
    \/ \E c \in Conns : dispatch_list(c)
    \/ \E c \in Conns : write_response(c)
    \/ \E c \in Conns, names \in NameOpts : handle_start_begin(c, names)
    \/ \E c \in Conns : handle_start_step(c)
    \/ \E c \in Conns, err \in SpawnErrors : handle_start_spawn_fails(c, err)
    \/ \E c \in Conns : handle_start_done(c)
    \/ \E p \in 1..Len(child) : child_exit(p)

SpecStart == Init /\ [][NextStart]_vars

\* one daemon whose accept loop is followed select! by select!; signals
\* arrive at any moment, clients send List and Kill
NextSignal ==
    \/ \E d \in MainDaemons : run_guard(d)
    \/ \E d \in MainDaemons : write_pid_file(d)
    \/ \E d \in MainDaemons : remove_stale_socket(d)
    \/ \E d \in MainDaemons : bind(d)
    \/ \E d \in MainDaemons : sig_deliver(d)
    \/ \E d \in MainDaemons : select_accept(d)
    \/ \E d \in MainDaemons, c \in Conns : spawn_handler(d, c)
    \/ \E d \in MainDaemons : select_signal(d)
    \/ \E d \in MainDaemons : select_shutdown(d)
    \/ \E c \in Conns : dispatch_list(c)
    \/ \E c \in Conns : dispatch_kill(c)
    \/ \E c \in Conns : write_response(c)
    \/ \E d \in MainDaemons : shutdown_lock(d)
    \/ \E d \in MainDaemons : shutdown_done(d)
    \/ \E d \in MainDaemons : remove_socket(d)
    \/ \E d \in MainDaemons : remove_pid_file(d)

\* the steps the main task takes once it is woken: the rest of the accept
\* branch, the branches of select! that need no client, start-up and shutdown
MainTaskStep(d) ==
    \/ \E c \in Conns : spawn_handler(d, c)
    \/ select_signal(d)
    \/ select_shutdown(d)
    \/ DaemonStep(d)

\* the runtime keeps polling the woken main task and every handler task that
\* has read its request; clients and signals are under no obligation
SpecSignal ==
    /\ Init
    /\ [][NextSignal]_vars
    /\ \A d \in MainDaemons : WF_vars(MainTaskStep(d))
    /\ \A c \in Conns : WF_vars(write_response(c))

\* the steps a handler task takes by itself while it holds the write lock,
\* and the write of its response
TableHandlerStep(c) ==
    \/ write_response(c)
    \/ handle_start_step(c)
    \/ handle_start_done(c)
    \/ handle_stop_step(c)
    \/ handle_stop_done(c)
    \/ handle_restart_step(c)
    \/ handle_restart_spawn(c)
    \/ handle_restart_done(c)

\* one daemon that is told to shut down while other connections run Start,
\* Stop, Restart or follow the logs
KillStarts == {Some(<<"web">>)}
NextKill ==
    \/ \E d \in MainDaemons : run_guard(d)
    \/ \E d \in MainDaemons : write_pid_file(d)
    \/ \E d \in MainDaemons : remove_stale_socket(d)
    \/ \E d \in MainDaemons : bind(d)
    \/ \E d \in MainDaemons, c \in Conns : accept(d, c)
    \/ \E d \in MainDaemons : observe_shutdown(d)
    \/ \E c \in Conns : dispatch_list(c)
    \/ \E c \in Conns : dispatch_kill(c)
    \/ \E c \in Conns : write_response(c)
    \/ \E c \in Conns, names \in KillStarts : handle_start_begin(c, names)
    \/ \E c \in Conns : handle_start_step(c)
    \/ \E c \in Conns : handle_start_done(c)
    \/ \E c \in Conns, names \in GuardNames : handle_stop_begin(c, names)
    \/ \E c \in Conns : handle_stop_step(c)
    \/ \E c \in Conns : handle_stop_done(c)
    \/ \E c \in Conns, names \in GuardNames : handle_restart_begin(c, names)
    \/ \E c \in Conns : handle_restart_step(c)
    \/ \E c \in Conns : handle_restart_spawn(c)
    \/ \E c \in Conns : handle_restart_done(c)
    \/ \E c \in Conns : handle_log_begin(c, NoNames, MaxLines, TRUE)
    \/ \E c \in Conns : handle_log_follow_init(c)
    \/ \E c \in Conns : handle_log_follow_poll(c)
    \/ \E c \in Conns : handle_log_follow_sleep(c)
    \/ \E d \in MainDaemons : graceful_stop_wait(d)
    \/ \E d \in MainDaemons : graceful_stop_timeout(d)
    \/ \E p \in 1..Len(child) : child_exit(p)
    \/ \E d \in MainDaemons : shutdown_lock(d)
    \/ \E d \in MainDaemons : shutdown_step(d)
    \/ \E d \in MainDaemons : shutdown_done(d)
    \/ \E d \in MainDaemons : remove_socket(d)
    \/ \E d \in MainDaemons : remove_pid_file(d)

\* the runtime keeps polling the main task, whose shutdown_rx.changed() branch
\* stays ready once the watch was signalled, and every handler task that
\* holds the write lock or has its response to write; clients and children
\* are under no obligation, and a follow stream may stay blocked in a write
\* to its client
SpecKill ==
    /\ Init
    /\ [][NextKill]_vars
    /\ \A d \in MainDaemons : WF_vars(DaemonStep(d) \/ observe_shutdown(d))
    /\ \A c \in Conns : WF_vars(TableHandlerStep(c))

\* one daemon whose accept loop ends by Kill, by a signal or by a failed
\* accept; clients start the manifest before; in the shutdown pass the wait
\* of a graceful_stop may fail
NextShut ==
    \/ \E d \in MainDaemons : run_guard(d)
    \/ \E d \in MainDaemons : write_pid_file(d)
    \/ \E d \in MainDaemons : remove_stale_socket(d)
    \/ \E d \in MainDaemons : bind(d)
    \/ \E d \in MainDaemons, c \in LogConns : accept(d, c)
    \/ \E d \in MainDaemons : accept_fails(d)
    \/ \E d \in MainDaemons : observe_shutdown(d)
    \/ \E d \in MainDaemons : signal_shutdown(d)
    \/ \E c \in LogConns : dispatch_kill(c)
    \/ \E c \in LogConns : write_response(c)
    \/ \E c \in LogConns, names \in GuardNames : handle_start_begin(c, names)
    \/ \E c \in LogConns : handle_start_step(c)
    \/ \E c \in LogConns : handle_start_done(c)
    \/ \E d \in MainDaemons : graceful_stop_wait(d)
    \/ \E d \in MainDaemons : graceful_stop_timeout(d)
    \/ \E p \in 1..Len(child) : child_exit(p)
    \/ \E d \in MainDaemons : shutdown_lock(d)
    \/ \E d \in MainDaemons : shutdown_step(d)
    \/ \E d \in MainDaemons : shutdown_stop_fails(d, "wait")
    \/ \E d \in MainDaemons : shutdown_done(d)
    \/ \E d \in MainDaemons : remove_socket(d)
    \/ \E d \in MainDaemons : remove_pid_file(d)

\* the runtime keeps polling the main task and every handler task that has
\* read its request; clients, signals and children are under no obligation
SpecShut ==
    /\ Init
    /\ [][NextShut]_vars
    /\ \A d \in MainDaemons : WF_vars(DaemonStep(d) \/ observe_shutdown(d))
    /\ \A c \in LogConns : WF_vars(HandlerStep(c))

\* one daemon that keeps serving; clients start the manifest and send Stop,
\* Restart and List; graceful_stop and the spawn of a Restart may fail
FailNames == {NoNames, Some(<<"web">>)}
NextFail ==
    \/ \E d \in MainDaemons : run_guard(d)
    \/ \E d \in MainDaemons : write_pid_file(d)
    \/ \E d \in MainDaemons : remove_stale_socket(d)
    \/ \E d \in MainDaemons : bind(d)
    \/ \E d \in MainDaemons, c \in Conns : accept(d, c)
    \/ \E c \in Conns : dispatch_list(c)
    \/ \E c \in Conns : write_response(c)
    \/ \E c \in Conns, names \in GuardNames : handle_start_begin(c, names)
    \/ \E c \in Conns : handle_start_step(c)
    \/ \E c \in Conns : handle_start_done(c)
    \/ \E c \in Conns, names \in FailNames : handle_stop_begin(c, names)
    \/ \E c \in Conns : handle_stop_step(c)
    \/ \E c \in Conns, at \in StopFailures : handle_stop_fails(c, at)
    \/ \E c \in Conns : handle_stop_done(c)
    \/ \E c \in Conns, names \in FailNames : handle_restart_begin(c, names)
    \/ \E c \in Conns : handle_restart_step(c)
    \/ \E c \in Conns, at \in StopFailures : handle_restart_stop_fails(c, at)
    \/ \E c \in Conns : handle_restart_spawn(c)
    \/ \E c \in Conns, err \in SpawnErrors : handle_restart_spawn_fails(c, err)
    \/ \E c \in Conns : handle_restart_done(c)
    \/ \E d \in MainDaemons : graceful_stop_wait(d)
    \/ \E d \in MainDaemons : graceful_stop_timeout(d)
    \/ \E p \in 1..Len(child) : child_exit(p)

SpecFail == Init /\ [][NextFail]_vars

\* one daemon; clients send Start, Stop, List, Kill, Log, lines that do not
\* decode or nothing, and any I/O operation of a connection may fail
NextIo ==
    \/ \E d \in MainDaemons : run_guard(d)
    \/ \E d \in MainDaemons : write_pid_file(d)
    \/ \E d \in MainDaemons : remove_stale_socket(d)
    \/ \E d \in MainDaemons : bind(d)
    \/ \E d \in MainDaemons, c \in Conns : accept(d, c)
    \/ \E d \in MainDaemons : observe_shutdown(d)
    \/ \E c \in Conns, line \in BadLines \cup {LineEOF} :
          handle_connection_reject(c, line)
    \/ \E c \in Conns : handler_io_fails(c)
    \/ \E c \in Conns : dispatch_list(c)
    \/ \E c \in Conns : dispatch_kill(c)
    \/ \E c \in Conns : write_response(c)
    \/ \E c \in Conns, names \in GuardNames : handle_start_begin(c, names)
    \/ \E c \in Conns : handle_start_step(c)
    \/ \E c \in Conns : handle_start_done(c)
    \/ \E c \in Conns, names \in GuardNames : handle_stop_begin(c, names)
    \/ \E c \in Conns : handle_stop_step(c)
    \/ \E c \in Conns : handle_stop_done(c)
    \/ \E c \in Conns, follow \in BOOLEAN :
          handle_log_begin(c, NoNames, MaxLines, follow)
    \/ \E c \in Conns : handle_log_read(c)
    \/ \E c \in Conns : handle_log_end(c)
    \/ \E c \in Conns : handle_log_follow_init(c)
    \/ \E c \in Conns : handle_log_follow_poll(c)
    \/ \E c \in Conns : handle_log_follow_sleep(c)
    \/ \E d \in MainDaemons : graceful_stop_wait(d)
    \/ \E d \in MainDaemons : graceful_stop_timeout(d)
    \/ \E d \in MainDaemons : shutdown_lock(d)
    \/ \E d \in MainDaemons : shutdown_step(d)
    \/ \E d \in MainDaemons : shutdown_done(d)
    \/ \E d \in MainDaemons : remove_socket(d)
    \/ \E d \in MainDaemons : remove_pid_file(d)

SpecIo == Init /\ [][NextIo]_vars

\* ====================================================================== claims
\* the daemon wrote the PID file and has not returned from run
Live(d) ==
    dpc[d] \in {"rm_stale", "bind", "loop", "shut_lock", "shut_stop",
                "rm_sock", "rm_pid"}

AtMostOneLive == Cardinality({ d \in Daemons : Live(d) }) <= 1

RejectedWhenLive ==
    \A d \in Daemons :
        (dpc[d] = "start" /\ dpc'[d] # "start" /\ \E e \in Daemons : Live(e))
        => (dpc'[d] = "returned" /\ dres'[d] = MsgAlreadyRunning)

\* C1: in every reachable state at most one daemon of the data_dir is live
\* (PID file written, run not yet returned), whatever the interleaving of the
\* run calls; and a run call whose guard runs while a daemon is live returns
\* the error "daemon is already running".
C1_SingleInstance == [](AtMostOneLive) /\ [][RejectedWhenLive]_vars

C1_Witness ==
    \E d, e \in Daemons :
        /\ dpc[d] = "loop"
        /\ sockFile = d
        /\ dpc[e] = "returned"
        /\ dres[e] = MsgAlreadyRunning

\* C2: in the step in which run returns after a Kill request or a
\* SIGTERM/SIGINT, neither the endpoint socket file nor the PID file exists.
C2_FilesRemovedOnExit ==
    [][\A d \in Daemons :
          (dpc[d] # "returned" /\ dpc'[d] = "returned"
             /\ cause[d] \in {"kill", "signal"})
          => (sockFile' = NoFile /\ pidFile' = NoFile)]_vars

C2_Witness ==
    \E d \in Daemons :
        /\ dpc[d] = "returned"
        /\ cause[d] = "kill"
        /\ dres[d] = "ok"
        /\ sockFile = NoFile
        /\ pidFile = NoFile

\* C3: once run has returned after Kill or SIGTERM/SIGINT, no child spawned
\* by a Start or Restart request of that daemon is still running.
C3_NoChildSurvivesExit ==
    \A d \in Daemons :
        (dpc[d] = "returned" /\ cause[d] \in {"kill", "signal"})
        => \A p \in 1..Len(child) :
              child[p].owner = d => child[p].st # "running"

\* the handler of c returns from op with Success in this step
Succeeds(c, op) == cpc[c] = "run" /\ cpc'[c] = "respond" /\ creq[c] = op

\* C4: when a Start request returns Success, the List taken right after it
\* holds every name the request started exactly once, with status Online and
\* a PID that the zero-signal probe finds alive.
C4_StartedAreOnline ==
    [][\A c \in Conns :
          Succeeds(c, "Start") =>
             LET infos == ListInfos(table'[cdaemon[c]])
             IN  \A n \in Range(cresp'[c].names) :
                    /\ Cardinality({ i \in infos : i.name = n }) = 1
                    /\ \A i \in infos :
                          i.name = n =>
                             /\ i.status = "Online"
                             /\ i.pid # 0
                             /\ Probe(child', i.pid)]_vars

C4_Witness ==
    \E c \in Conns :
        /\ cpc[c] = "respond"
        /\ creq[c] = "Start"
        /\ cresp[c].type = "Success"
        /\ Len(cresp[c].names) = 2

\* the original C5: a successful Restart leaves every targeted entry Online
\* with restarts one above its value before the request, and after k
\* successful Restart requests on a name its restarts is k.
C5_Original ==
    /\ [][\A c \in Conns :
             Succeeds(c, "Restart") =>
                LET w == work[cdaemon[c]]
                IN  \A n \in Range(w.targets) :
                       /\ table'[cdaemon[c]][n].status = "Online"
                       /\ table'[cdaemon[c]][n].restarts
                             = w.pre[n].restarts + 1]_vars
    /\ [](\A d \in Daemons :
             work[d].op # "Restart" =>
                \A n \in Keys(table[d]) :
                   table[d][n].restarts = restartReqs[d][n])

\* C5, amended: a successful Restart leaves every targeted entry Online with
\* restarts equal to its value before the request plus the number of times
\* its name occurs in the request's names (one when the names are distinct
\* or absent); with only successful Restart requests since its Start, an
\* entry's restarts is the total of these occurrences.
C5_RestartCounts ==
    /\ [][\A c \in Conns :
             Succeeds(c, "Restart") =>
                LET w == work[cdaemon[c]]
                IN  \A n \in Range(w.targets) :
                       /\ table'[cdaemon[c]][n].status = "Online"
                       /\ table'[cdaemon[c]][n].restarts
                             = w.pre[n].restarts
                               + Occurrences(n, w.targets)]_vars
    /\ [](\A d \in Daemons :
             work[d].op # "Restart" =>
                \A n \in Keys(table[d]) :
                   table[d][n].restarts = restartOccs[d][n])

C5_Witness ==
    \E c \in Conns :
        /\ cpc[c] = "respond"
        /\ creq[c] = "Restart"
        /\ cresp[c].type = "Success"
        /\ cresp[c].names = <<"web">>
        /\ table[cdaemon[c]]["web"].restarts = 2
        /\ restartReqs[cdaemon[c]]["web"] = 2

C7_StopUnknownNoEffect ==
    [][\A c \in Conns :
          (cpc[c] = "accepted" /\ creq'[c] = "Stop") =>
             LET d == cdaemon[c]
             IN  IF cpc'[c] = "run"
                 THEN \/ work'[d].names = NoNames
                      \/ Range(work'[d].names[1]) \subseteq Keys(table[d])
                 ELSE /\ cresp'[c].type = "Error"
                      /\ ContainsNotFound(cresp'[c].msg)
                      /\ cresp'[c].names[1] \notin Keys(table[d])
                      /\ table' = table
                      /\ child' = child]_vars

C7_Witness ==
    \E c \in Conns :
        /\ cpc[c] = "respond"
        /\ creq[c] = "Stop"
        /\ cresp[c].type = "Error"
        /\ cresp[c].names = <<"ghost">>
        /\ table[cdaemon[c]]["web"].status = "Online"

\* C8: a Start whose names hold a key absent from configs never reaches the
\* spawn loop: it returns Error with a "not found" message naming an absent
\* key, spawns no child and leaves the table unchanged.
C8_StartUnknownNoEffect ==
    [][\A c \in Conns :
          (cpc[c] = "accepted" /\ creq'[c] = "Start") =>
             LET d == cdaemon[c]
             IN  IF cpc'[c] = "run"
                 THEN \/ work'[d].names = NoNames
                      \/ Range(work'[d].names[1]) \subseteq Manifest
                 ELSE /\ cresp'[c].type = "Error"
                      /\ ContainsNotFound(cresp'[c].msg)
                      /\ cresp'[c].names[1] \notin Manifest
                      /\ table' = table
                      /\ child' = child]_vars

C8_Witness ==
    \E c \in Conns :
        /\ cpc[c] = "respond"
        /\ creq[c] = "Start"
        /\ cresp[c].type = "Error"
        /\ cresp[c].names = <<"ghost">>
        /\ Keys(table[cdaemon[c]]) = {}

\* the names a Stop or Restart with these locals was asked to act on
Named(w) ==
    IF w.names = NoNames THEN Keys(w.pre) ELSE Range(w.names[1])

\* C9: when Stop{names} returns Success every named entry is Stopped and
\* every entry not named is as it was when the request took the lock.
C9_StopFrame ==
    [][\A c \in Conns :
          Succeeds(c, "Stop") =>
             LET d == cdaemon[c]
                 w == work[d]
             IN  \A n \in Names :
                    IF n \in Named(w)
                    THEN table'[d][n].status = "Stopped"
                    ELSE table'[d][n] = w.pre[n]]_vars

C9_Witness ==
    \E c \in Conns :
        /\ cpc[c] = "respond"
        /\ creq[c] = "Stop"
        /\ cresp[c].names = <<"web">>
        /\ table[cdaemon[c]]["web"].status = "Stopped"
        /\ table[cdaemon[c]]["worker"].status = "Online"

\* C10: when Restart{names} returns Success every named entry is Online
\* with a new, unreaped child whose PID differs from the one it had, and
\* every entry not named is as it was when the request took the lock.
C10_RestartFrame ==
    [][\A c \in Conns :
          Succeeds(c, "Restart") =>
             LET d == cdaemon[c]
                 w == work[d]
             IN  \A n \in Names :
                    IF n \in Named(w)
                    THEN /\ table'[d][n].status = "Online"
                         /\ table'[d][n].pid # w.pre[n].pid
                         /\ ~table'[d][n].reaped
                         /\ Probe(child', table'[d][n].pid)
                    ELSE table'[d][n] = w.pre[n]]_vars

C10_Witness ==
    \E c \in Conns :
        /\ cpc[c] = "respond"
        /\ creq[c] = "Restart"
        /\ cresp[c].names = <<"web">>
        /\ table[cdaemon[c]]["web"].status = "Online"
        /\ table[cdaemon[c]]["worker"].status # "Absent"

\* C11: a daemon shut down by a Kill request never returns from run (and so
\* never stops running its handler tasks) while the handler of a Kill
\* request has computed the response "daemon shutting down" but has not yet
\* written it.
C11_KillResponseWritten ==
    \A c \in Conns :
        (creq[c] = "Kill" /\ cpc[c] = "respond"
           /\ cause[cdaemon[c]] = "kill")
        => Alive(cdaemon[c])

\* the handler task of a connection has returned
Ended == {"done", "failed"}
TerminalTypes == {"Success", "Error", "ProcessList", "ProcessDetail"}

\* C12: whenever the handler of an accepted connection ends, it ends by
\* writing a frame, and that last frame is a Success, an Error, a ProcessList
\* or a ProcessDetail (the terminal Success of a log stream included).
C12_EveryConnectionAnswered ==
    [][\A c \in Conns :
          (cpc[c] \notin Ended /\ cpc'[c] \in Ended)
          => /\ cpc[c] = "respond"
             /\ cpc'[c] = "done"
             /\ cresp[c].type \in TerminalTypes]_vars

\* C13: when the request line read from a connection does not decode, the
\* handler computes an Error response, which it then writes before closing.
C13_DecodeErrorAnswered ==
    [][\A c \in Conns :
          (cpc[c] = "accepted" /\ creq'[c] \in BadLines)
          => /\ cpc'[c] = "respond"
             /\ cresp'[c].type = "Error"]_vars

\* C14: a connection whose read returns no byte is closed silently: the
\* handler returns Ok without having computed or written any frame, and the
\* process tables, the shutdown watches and the children are unchanged.
C14_EmptyReadSilent ==
    [][\A c \in Conns :
          (cpc[c] = "accepted" /\ creq'[c] = LineEOF)
          => /\ cpc'[c] = "done"
             /\ cresp'[c] = NoResp
             /\ out'[c] = <<>>
             /\ table' = table
             /\ shutdown' = shutdown
             /\ child' = child]_vars

C14_Witness ==
    \E c \in Conns :
        /\ cpc[c] = "done"
        /\ creq[c] = LineEOF
        /\ Keys(table[cdaemon[c]]) = Manifest
        /\ Alive(cdaemon[c])

\* the lines of a file, counted and cut at the newlines; an unterminated
\* rest after the last newline is a line too
NlPos(file) == { i \in 1..Len(file) : file[i] = "\n" }
NumLines(file) ==
    Cardinality(NlPos(file))
    + IF Len(file) > 0 /\ file[Len(file)] # "\n" THEN 1 ELSE 0
\* position of the k-th newline, or one past the end of the file
NlAt(file, k) ==
    IF k <= Cardinality(NlPos(file))
    THEN CHOOSE i \in NlPos(file) :
            Cardinality({ j \in NlPos(file) : j <= i }) = k
    ELSE Len(file) + 1
LineAt(file, k) ==
    SubSeq(file, IF k = 1 THEN 1 ELSE NlAt(file, k - 1) + 1, NlAt(file, k) - 1)
LastLines(file, n) ==
    LET total == NumLines(file)
        m == Min({n, total})
    IN  [j \in 1..m |-> LineAt(file, total - m + j)]

\* position of name n in the sequence names
IndexOf(n, names) == Min({ i \in 1..Len(names) : names[i] = n })

\* in a historical stream the frames follow the order of the targets, and
\* for one target the stdout frames precede the stderr frames
HistoricalOrder ==
    \A c \in Conns :
        cpc[c] = "log_hist" =>
           \A i, j \in 1..Len(out[c]) :
              i < j =>
                 LET a == out[c][i].file
                     b == out[c][j].file
                 IN  /\ IndexOf(a[1], lw[c].names) <= IndexOf(b[1], lw[c].names)
                     /\ a[1] = b[1] => ~(a[2] = "err" /\ b[2] = "out")

C16_HistoricalStreamShape ==
    \A c \in Conns :
        (creq[c] = "Log" /\ ~lw[c].follow /\ cpc[c] = "respond")
        => /\ \A k \in 1..Len(out[c]) : out[c][k].type = "LogLine"
           /\ cresp[c].type = "Success"
           /\ cresp[c].msg = MsgNone

\* the handler of c is in handle_log_follow, past the snapshot
Following(c) == cpc[c] \in {"follow_poll", "follow_sleep"}

\* C17: every LogLine of a follow stream carries bytes of its file that lie
\* at or after the length the file had when the starting offsets were
\* snapshotted.
C17_FollowOnlyNewBytes ==
    \A c \in Conns :
        Following(c) =>
           \A k \in 1..Len(out[c]) :
              LET f == out[c][k]
                  file == logs[f.file[1]][f.file[2]]
              IN  /\ f.off >= lw[c].start[f.file[1]][f.file[2]]
                  /\ f.line = SubSeq(file, f.off + 1, f.off + Len(f.line))

C17_Witness ==
    \E c \in Conns :
        /\ Following(c)
        /\ \E k \in 1..Len(out[c]) :
              /\ lw[c].start[out[c][k].file[1]][out[c][k].file[2]] > 0
              /\ out[c][k].line # <<>>

\* the lines of the LogLine frames that c was sent from stream s of n
EmittedLines(c, n, s) ==
    LET FromFile(f) == f.file = <<n, s>>
        fr == SelectSeq(out[c], FromFile)
    IN  [k \in 1..Len(fr) |-> fr[k].line]

\* the lines appended to stream s of n since c snapshotted its length
AppendedLines(c, n, s) ==
    LET file == logs[n][s]
        rest == SubSeq(file, lw[c].start[n][s] + 1, Len(file))
    IN  [k \in 1..NumLines(rest) |-> LineAt(rest, k)]

IsPrefix(a, b) ==
    /\ Len(a) <= Len(b)
    /\ \A k \in 1..Len(a) : a[k] = b[k]

\* C18: in a follow stream the LogLine frames sent from one file are, in
\* order, the first lines appended to that file after the request: each
\* appended line is sent at most once, whole, and in append order.
C18_FollowWholeLinesInOrder ==
    \A c \in Conns :
        Following(c) =>
           \A n \in Range(lw[c].names), s \in Streams :
              IsPrefix(EmittedLines(c, n, s), AppendedLines(c, n, s))

\* the daemon left the accept loop, or Kill signalled the shutdown watch
ShuttingDown(d) ==
    \/ shutdown[d]
    \/ dpc[d] \in {"shut_lock", "shut_stop", "rm_sock", "rm_pid"}

\* C19: a follow stream whose client has closed the connection, or whose
\* daemon has begun shutting down, eventually ends: its handler returns or the
\* daemon process exits, with or without further output in the followed files.
C19_FollowStreamTerminates ==
    \A c \in LogConns :
        (Following(c) /\ (closed[c] \/ ShuttingDown(cdaemon[c])))
           ~> \/ cpc[c] \in Ended
              \/ cdaemon[c] \in Daemons /\ ~Alive(cdaemon[c])

\* C20: the step that handles a List request changes no entry of the process
\* table, leaves the shutdown watch as it was, sends no signal to any child and
\* takes no write lock.
C20_ListPureObserver ==
    [][\A c \in Conns :
          (cpc[c] = "accepted" /\ cpc'[c] = "respond" /\ creq'[c] = "List")
          => /\ table' = table
             /\ shutdown' = shutdown
             /\ child' = child
             /\ lock' = lock]_vars

C20_Witness ==
    \E c \in Conns :
        /\ cpc[c] = "respond"
        /\ creq[c] = "List"
        /\ cresp[c].type = "ProcessList"
        /\ \E i \in cresp[c].infos : i.status = "Online"
        /\ \E p \in 1..Len(child) : child[p].sigs # <<>>

\* an endpoint file was left behind and no live daemon owns the PID file
StaleEndpoint == sockFile # NoFile /\ ~is_daemon_running

\* C21: a daemon started on a data_dir with a stale endpoint file is not
\* turned away by the guard, finds no file in the way when it binds because
\* the stale socket was removed, and while it serves it owns the endpoint and
\* the PID file.
C21_StaleEndpointRestart ==
    /\ [][\A d \in Daemons :
             (dpc[d] = "start" /\ StaleEndpoint /\ dpc'[d] # "start")
             => (dpc'[d] = "write_pid" \/ dres'[d] = "killed")]_vars
    /\ [](\A d \in Daemons : dpc[d] = "bind" => sockFile = NoFile)
    /\ [](\A d \in Daemons : dpc[d] = "loop" => (sockFile = d /\ pidFile = d))

C21_Witness ==
    \E d, e \in Daemons, b, c \in Conns :
        /\ dres[e] = "killed"
        /\ cdaemon[b] = e
        /\ dpc[d] = "loop"
        /\ sockFile = d
        /\ cdaemon[c] = d
        /\ cpc[c] = "respond"
        /\ cresp[c].type = "ProcessList"

\* run of d returned, having written the PID file before
ReturnedAfterPid(d) ==
    /\ dpc[d] = "returned"
    /\ dres[d] \in {"ok", "bind failed", "accept failed"}

\* C22: whenever run has returned, with Ok or with an error, after having
\* written the PID file, neither the PID file nor the endpoint file of that
\* daemon remains.
C22_FilesReleasedOnEveryExit ==
    \A d \in Daemons :
        ReturnedAfterPid(d) => (pidFile # d /\ sockFile # d)

\* every child that was not reaped is the child of an entry of its daemon
NoOrphan ==
    \A p \in 1..Len(child) :
        child[p].st \in {"running", "zombie"}
        => \E n \in Names :
              /\ table[child[p].owner][n].status # "Absent"
              /\ table[child[p].owner][n].pid = p

\* C23: Start requests for the same name on concurrent connections spawn one
\* child for it: no child is left without a table entry of its own, a name
\* that was in the table when a request took the write lock is not reported
\* as started by it and keeps its entry, and a name that was not is spawned
\* and reported once.
C23_ConcurrentStartSpawnsOnce ==
    /\ [](NoOrphan)
    /\ [](Len(child) <= Cardinality(Manifest))
    /\ [][\A c \in Conns :
             (Succeeds(c, "Start") /\ cresp'[c].type = "Success") =>
                LET d == cdaemon[c]
                    w == work[d]
                IN  \A n \in Range(w.targets) :
                       IF n \in Keys(w.pre)
                       THEN /\ n \notin Range(cresp'[c].names)
                            /\ table'[d][n] = w.pre[n]
                       ELSE /\ Occurrences(n, cresp'[c].names) = 1
                            /\ table'[d][n].status = "Online"]_vars

C23_Witness ==
    \E b, c \in Conns :
        /\ b # c
        /\ cpc[b] = "respond" /\ creq[b] = "Start"
        /\ cresp[b].type = "Success" /\ cresp[b].names = <<"web">>
        /\ cpc[c] = "respond" /\ creq[c] = "Start"
        /\ cresp[c].type = "Success" /\ cresp[c].names = <<>>
        /\ Len(child) = 1

\* the handler of c returns the Error of a failed spawn in this step
SpawnFails(c) ==
    /\ Succeeds(c, "Start")
    /\ cresp'[c].type = "Error"
    /\ cresp'[c].msg = MsgFailedToStart

\* C28: when spawn_process fails for a target of a Start request, the request
\* returns Error naming that target, the target is not inserted, the request
\* gives up the lock and spawns nothing more, and the table is the table the
\* request found plus the targets it had spawned, each still Online.
C28_SpawnFailureAborts ==
    /\ [][\A c \in Conns :
             SpawnFails(c) =>
                LET d == cdaemon[c]
                    w == work[d]
                    n == cresp'[c].names[1]
                IN  /\ n = w.targets[w.i]
                    /\ n \notin Keys(table'[d])
                    /\ Keys(table'[d]) = Keys(w.pre) \cup Range(w.acc)
                    /\ \A m \in Range(w.acc) : table'[d][m].status = "Online"
                    /\ \A m \in Keys(w.pre) : table'[d][m] = w.pre[m]
                    /\ child' = child
                    /\ lock'[d] = Free]_vars
    /\ [](\A c \in Conns :
             cpc[c] \in {"respond", "done"} => lock[cdaemon[c]] # c)

C28_Witness ==
    \E c \in Conns :
        /\ cpc[c] = "respond"
        /\ creq[c] = "Start"
        /\ cresp[c].type = "Error"
        /\ cresp[c].names = <<"worker", "InvalidCommand">>
        /\ table[cdaemon[c]]["web"].status = "Online"
        /\ table[cdaemon[c]]["worker"].status = "Absent"
        /\ Len(child) = 1

\* the names of S in the order of their first occurrence in ts
RECURSIVE FirstOccurrences(_, _)
FirstOccurrences(ts, S) ==
    IF ts = <<>> THEN <<>>
    ELSE IF Head(ts) \in S
         THEN <<Head(ts)>> \o FirstOccurrences(Tail(ts), S \ {Head(ts)})
         ELSE FirstOccurrences(Tail(ts), S)

\* C29: the Success of a Start request names the processes the request
\* inserted into the table, each once, in the order in which the targets
\* were iterated, and its message is "everything is already running" exactly
\* when the request inserted none.
C29_StartMessageNamesInserted ==
    [][\A c \in Conns :
          (Succeeds(c, "Start") /\ cresp'[c].type = "Success") =>
             LET d == cdaemon[c]
                 w == work[d]
                 inserted == Keys(table'[d]) \ Keys(w.pre)
             IN  /\ cresp'[c].names = FirstOccurrences(w.targets, inserted)
                 /\ (cresp'[c].msg = "everything is already running")
                       <=> (inserted = {})
                 /\ (cresp'[c].msg = "started: {}") <=> (inserted # {})]_vars

C29_Witness ==
    \E b, c \in Conns :
        /\ cpc[b] = "respond" /\ creq[b] = "Start"
        /\ cresp[b].msg = "started: {}"
        /\ cresp[b].names = <<"worker", "web">>
        /\ cpc[c] = "respond" /\ creq[c] = "Start"
        /\ cresp[c].msg = "everything is already running"

\* the handler of c serves a List request in this step
ListStep(c) ==
    cpc[c] = "accepted" /\ cpc'[c] = "respond" /\ creq'[c] = "List"

\* C24: at the step in which a List takes its snapshot no Start, Stop or
\* Restart of that daemon, and no shutdown pass, is between taking and
\* releasing the write lock, and the snapshot is the table of that moment:
\* what List shows is the table before or after every command, never the
\* table in between.
C24_ListSeesWholeCommands ==
    [][\A c \in Conns :
          ListStep(c) =>
             LET d == cdaemon[c]
             IN  /\ lock[d] = Free
                 /\ work[d] = NoWork
                 /\ \A b \in Conns :
                       cdaemon[b] = d => cpc[b] # "run"
                 /\ cresp'[c].infos = ListInfos(table[d])]_vars

C24_Witness ==
    \E b, c \in Conns :
        /\ cpc[b] = "respond" /\ creq[b] = "Restart"
        /\ cresp[b].type = "Success" /\ Len(cresp[b].names) = 2
        /\ cpc[c] = "respond" /\ creq[c] = "List"
        /\ \A i \in cresp[c].infos : i.status = "Online" /\ i.restarts = 1
        /\ Cardinality(cresp[c].infos) = 2

\* child p is sent SIGKILL in this step
KillSent(p) ==
    /\ Len(child'[p].sigs) = Len(child[p].sigs) + 1
    /\ child'[p].sigs[Len(child'[p].sigs)] = "KILL"

\* graceful_stop, called by the lock holder of d, returns in this step
GracefulStopReturns(d) ==
    work[d].gs \in {"term", "kill"} /\ work'[d].gs \notin {"term", "kill"}

\* C25: a child is sent SIGTERM first and SIGKILL at most once after it;
\* SIGKILL is sent only in the step in which the kill_timeout deadline
\* passes, to a child that was sent SIGTERM and has not exited; when
\* graceful_stop returns, the entry is Stopped and its restarts is unchanged.
C25_TwoPhaseStop ==
    /\ [](\A p \in 1..Len(child) :
             child[p].sigs \in {<<>>, <<"TERM">>, <<"TERM", "KILL">>})
    /\ [][\A p \in 1..Len(child) :
             KillSent(p) =>
                /\ child[p].sigs = <<"TERM">>
                /\ child[p].st = "running"
                /\ work[child[p].owner].gs = "term"
                /\ work'[child[p].owner].gs = "kill"]_vars
    /\ [][\A d \in Daemons :
             GracefulStopReturns(d) =>
                LET n == work[d].targets[work[d].i]
                IN  /\ table'[d][n].status = "Stopped"
                    /\ table'[d][n].restarts = table[d][n].restarts]_vars

C25_Witness ==
    \E d \in Daemons, p \in 1..Len(child) :
        /\ child[p].sigs = <<"TERM", "KILL">>
        /\ work[d].gs = "kill"
        /\ work[d].i = 2
        /\ table[d][work[d].targets[1]].status = "Stopped"

\* daemon d has spawned no child yet
NothingSpawned(d) == \A p \in 1..Len(child) : child[p].owner # d

\* C26: a daemon begins with an empty table and its table only ever holds
\* children it spawned itself, so a List answered by a daemon that has
\* spawned nothing is empty whatever an earlier daemon of the data_dir
\* managed; while the daemon serves, the endpoint and the PID file are its own.
C26_FreshTablePerDaemon ==
    /\ [](\A d \in Daemons :
             dpc[d] \in {"start", "write_pid", "rm_stale", "bind"}
             => Keys(table[d]) = {})
    /\ [](\A d \in Daemons : \A n \in Keys(table[d]) :
             /\ table[d][n].pid \in 1..Len(child)
             /\ child[table[d][n].pid].owner = d)
    /\ [][\A c \in Conns :
             (ListStep(c) /\ NothingSpawned(cdaemon[c]))
             => cresp'[c].infos = {}]_vars
    /\ [](\A d \in Daemons : dpc[d] = "loop" => (sockFile = d /\ pidFile = d))

C26_Witness ==
    \E d, e \in Daemons, c \in Conns :
        /\ dpc[e] = "returned" /\ cause[e] = "kill"
        /\ ~NothingSpawned(e)
        /\ Keys(table[e]) # {}
        /\ dpc[d] = "loop" /\ sockFile = d /\ pidFile = d
        /\ cdaemon[c] = d
        /\ cpc[c] = "respond" /\ creq[c] = "List"
        /\ cresp[c].infos = {}

\* C27: every LogLine of a Log stream has name None exactly when the request
\* named a process; when the request named none, a line read from <n>.out
\* carries Some(n) and a line read from <n>.err carries Some(n + ":err"),
\* also when the table holds one process only.
C27_LogLineNamePrefix ==
    \A c \in Conns :
        \A k \in 1..Len(out[c]) :
            LET f == out[c][k]
                n == f.file[1]
            IN  /\ (f.name = NoNames) <=> (lw[c].name # NoNames)
                /\ lw[c].name = NoNames =>
                      f.name = IF f.file[2] = "out" THEN <<n>>
                               ELSE <<n, ":err">>

C27_Witness ==
    \E c \in Conns :
        /\ lw[c].name = NoNames
        /\ lw[c].names = <<"web">>
        /\ \E k, j \in 1..Len(out[c]) :
              /\ out[c][k].name = <<"web">>
              /\ out[c][j].name = <<"web", ":err">>

\* a signal was delivered to d while its accept loop was running, and the
\* loop has not broken yet
SignalOutstanding(d) == dpc[d] \in {"loop_sig", "spawn_sig", "loop_missed"}

LoopLeft(d) ==
    dpc[d] \in {"shut_lock", "shut_stop", "rm_sock", "rm_pid", "returned"}

\* C30: whenever a SIGTERM or SIGINT was delivered to the daemon while its
\* accept loop was running, in select! or in the accept branch, the loop is
\* eventually left.
C30_SignalBreaksLoop ==
    \A d \in MainDaemons : SignalOutstanding(d) ~> LoopLeft(d)


\* --------------------------------------------------------------------- C31
\* C31: once Kill has signalled the shutdown watch of a running daemon, the
\* accept loop is left and the shutdown pass gets the write lock, and run
\* returns with the endpoint file and the PID file removed, whatever the
\* other connections are doing and whether or not the children obey SIGTERM
C31_KillShutsDown ==
    \A d \in MainDaemons :
        /\ (shutdown[d] /\ dpc[d] = "loop") ~> (lock[d] = ShutdownPass)
        /\ (shutdown[d] /\ Alive(d))
              ~> (dpc[d] = "returned" /\ sockFile = NoFile /\ pidFile = NoFile)

\* the daemon has returned after a Kill while a connection was following the
\* logs, and the shutdown pass had to stop a child
C31_Witness ==
    /\ dpc[1] = "returned"
    /\ shutdown[1]
    /\ cause[1] = "kill"
    /\ sockFile = NoFile
    /\ pidFile = NoFile
    /\ \E c \in Conns : cpc[c] \in {"follow_poll", "follow_sleep"}
    /\ \E n \in Names : table[1][n].status = "Stopped"

\* --------------------------------------------------------------------- C32
\* graceful_stop was called on the entry n of d: it is Stopped, or its child
\* was sent SIGTERM
StopCalled(d, n) ==
    LET e == table[d][n]
    IN  e.status = "Stopped" \/ "TERM" \in Range(child[e.pid].sigs)

\* run has left the accept loop and returned
ReturnedAfterLoop(d) == dpc[d] = "returned" /\ cause[d] # None

\* C32 (a): when the endpoint file is removed, graceful_stop has been called
\* on every entry of the table and the PID file is still there
C32_StopsBeforeEndpoint ==
    [][\A d \in MainDaemons :
          (sockFile = d /\ sockFile' = NoFile) =>
             /\ pidFile = d
             /\ \A n \in Keys(table[d]) : StopCalled(d, n)]_vars

\* C32 (b): the PID file is removed after the endpoint file; a failed
\* graceful_stop in the pass does not keep run from stopping the other
\* entries of the pass, removing both files and returning; run returns the
\* accept loop's result
C32_CleanupAfterFailure ==
    /\ [][\A d \in MainDaemons :
             (pidFile = d /\ pidFile' = NoFile) => sockFile = NoFile]_vars
    /\ [][\A d \in MainDaemons :
             (dpc[d] = "shut_stop" /\ dpc'[d] # "shut_stop") =>
                /\ dpc'[d] = "rm_sock"
                /\ \A n \in Range(work[d].targets) : StopCalled(d, n)]_vars
    /\ [](\A d \in MainDaemons :
             ReturnedAfterLoop(d) =>
                dres[d] = IF cause[d] = "accept" THEN "accept failed"
                          ELSE "ok")
    /\ \A d \in MainDaemons :
          (dpc[d] = "shut_stop" /\ work[d].acc # <<>>)
             ~> (dpc[d] = "returned" /\ sockFile = NoFile /\ pidFile = NoFile)

\* C32: the shutdown steps happen in the order stop pass over every table
\* entry, endpoint file, PID file; a failed graceful_stop stops neither the
\* pass nor the cleanup; run returns the accept loop's result
C32_ShutdownOrder == C32_StopsBeforeEndpoint /\ C32_CleanupAfterFailure

\* --------------------------------------------------------------------- C33
\* the Stop of connection c gives up its current target in this step: the
\* handler moves past it, or returns, and leaves it not Stopped
StopGivesUp(c) ==
    LET d == cdaemon[c]
        w == work[d]
    IN
    /\ Holds(c)
    /\ w.op = "Stop"
    /\ w.i <= Len(w.targets)
    /\ work'[d] # w
    /\ work'[d].gs = "none"
    /\ table'[d][w.targets[w.i]].status # "Stopped"

\* the targets of the lock holder of d after the current one that are neither
\* the current target nor one of those before it
LaterTargets(d) ==
    LET w == work[d]
    IN  { w.targets[k] : k \in (w.i + 1)..Len(w.targets) }
           \ { w.targets[k] : k \in { j \in 1..w.i : j <= Len(w.targets) } }

\* signals sent so far to the child of entry e
SigsOf(ch, e) == IF e.pid \in 1..Len(ch) THEN ch[e.pid].sigs ELSE <<>>

\* C33: a Stop whose graceful_stop fails for a target returns Error in the
\* same step and releases the lock; the targets before it are Stopped, the
\* targets after it have the entry they had when the request took the lock
\* and no signal was sent to them by the request, and the table is as it was
\* before the failing step
C33_StopFailureIsolated ==
    /\ [][\A c \in Conns :
             StopGivesUp(c) =>
                LET d == cdaemon[c]
                    w == work[d]
                IN  /\ cpc'[c] = "respond"
                    /\ cresp'[c].type = "Error"
                    /\ cresp'[c].msg = MsgFailedToStop
                    /\ cresp'[c].names[1] = w.targets[w.i]
                    /\ lock'[d] = Free
                    /\ table'[d] = table[d]
                    /\ \A k \in 1..(w.i - 1) :
                          table'[d][w.targets[k]].status = "Stopped"
                    /\ \A n \in LaterTargets(d) :
                          table'[d][n] = w.pre[n]]_vars
    /\ [][\A c \in Conns :
             (Holds(c) /\ work[cdaemon[c]].op = "Stop") =>
                \A n \in LaterTargets(cdaemon[c]) :
                   LET e == table[cdaemon[c]][n]
                   IN  SigsOf(child', e) = SigsOf(child, e)]_vars

\* a Stop of web and worker failed on its second target after the first was
\* stopped
C33_Witness ==
    \E c \in Conns :
        /\ cpc[c] = "respond"
        /\ creq[c] = "Stop"
        /\ cresp[c].type = "Error"
        /\ cresp[c].msg = MsgFailedToStop
        /\ \E n, m \in Manifest :
              /\ n # m
              /\ cresp[c].names[1] = n
              /\ table[cdaemon[c]][n].status = "Online"
              /\ table[cdaemon[c]][m].status = "Stopped"
              /\ table[cdaemon[c]][m].restarts = 0

\* --------------------------------------------------------------------- C34
\* C34: while a Start request holds the lock, no entry that is in the table
\* changes and a child is spawned only for a target that is not in the table;
\* when the request returns Success every entry it found is as it found it,
\* and the message is "everything is already running" when it inserted none
C34_StartKeepsEntries ==
    /\ [][\A c \in Conns :
             (Holds(c) /\ work[cdaemon[c]].op = "Start") =>
                LET d == cdaemon[c]
                    w == work[d]
                IN  /\ \A n \in Keys(table[d]) : table'[d][n] = table[d][n]
                    /\ Len(child') > Len(child) =>
                          /\ w.i <= Len(w.targets)
                          /\ w.targets[w.i] \notin Keys(table[d])]_vars
    /\ [][\A c \in Conns :
             Succeeds(c, "Start") =>
                LET d == cdaemon[c]
                    w == work[d]
                IN  /\ \A n \in Keys(w.pre) : table'[d][n] = w.pre[n]
                    /\ Keys(table'[d]) = Keys(w.pre) =>
                          cresp'[c].msg = "everything is already running"]_vars

\* a Start that names web, which was Stopped when the request took the lock,
\* has gone through its targets: nothing was started and web is still Stopped
C34_Witness ==
    \E c \in Conns :
        LET w == work[cdaemon[c]]
        IN  /\ Holds(c)
            /\ w.op = "Start"
            /\ w.i > Len(w.targets)
            /\ "web" \in Range(w.targets)
            /\ w.acc = <<>>
            /\ w.pre["web"].status = "Stopped"
            /\ table[cdaemon[c]]["web"] = w.pre["web"]
            /\ dpc[cdaemon[c]] = "loop"

\* --------------------------------------------------------------------- C35
\* the Restart of connection c, whose current target's old child is stopped,
\* leaves the spawn of the replacement without a new child for the entry
RestartSpawnGivesUp(c) ==
    LET d == cdaemon[c]
        w == work[d]
    IN
    /\ Holds(c)
    /\ w.op = "Restart"
    /\ w.gs = "spawn"
    /\ work'[d] # w
    /\ table'[d][w.targets[w.i]].pid = table[d][w.targets[w.i]].pid

\* C35: when the spawn of a Restart fails after the old child was stopped,
\* the request returns Error in that step and releases the lock; the failing
\* entry stays in the table, Stopped, with the restarts it had; the targets
\* before it have their new child, Online, and the targets after it have the
\* entry they had when the request took the lock and were sent no signal
C35_RestartSpawnFailure ==
    /\ [][\A c \in Conns :
             RestartSpawnGivesUp(c) =>
                LET d == cdaemon[c]
                    w == work[d]
                    n == w.targets[w.i]
                IN  /\ cpc'[c] = "respond"
                    /\ cresp'[c].type = "Error"
                    /\ cresp'[c].msg = MsgFailedToRestart
                    /\ cresp'[c].names[1] = n
                    /\ lock'[d] = Free
                    /\ table'[d] = table[d]
                    /\ table'[d][n].status = "Stopped"
                    /\ table'[d][n].restarts = w.pre[n].restarts
                    /\ \A k \in 1..(w.i - 1) :
                          LET m == w.targets[k]
                          IN  m # n =>
                                /\ table'[d][m].status = "Online"
                                /\ table'[d][m].pid # w.pre[m].pid
                                /\ table'[d][m].restarts > w.pre[m].restarts
                    /\ \A m \in LaterTargets(d) :
                          table'[d][m] = w.pre[m]]_vars
    /\ [][\A c \in Conns :
             (Holds(c) /\ work[cdaemon[c]].op = "Restart") =>
                \A m \in LaterTargets(cdaemon[c]) :
                   LET e == table[cdaemon[c]][m]
                   IN  SigsOf(child', e) = SigsOf(child, e)]_vars

\* a Restart of web and worker has answered Error for its second target,
\* whose old child it had stopped, after it restarted the first
C35_Witness ==
    \E c \in Conns :
        /\ cpc[c] = "respond"
        /\ creq[c] = "Restart"
        /\ cresp[c].type = "Error"
        /\ cresp[c].msg = MsgFailedToRestart
        /\ \E n, m \in Manifest :
              /\ n # m
              /\ cresp[c].names[1] = n
              /\ table[cdaemon[c]][n].status = "Stopped"
              /\ table[cdaemon[c]][n].reaped
              /\ table[cdaemon[c]][n].restarts = 0
              /\ table[cdaemon[c]][m].status = "Online"
              /\ table[cdaemon[c]][m].restarts = 1

\* --------------------------------------------------------------------- C36
\* C36: no step takes a key out of a daemon's table, and a List names every
\* key of the table, a Stopped entry with status Stopped
C36_EntriesNeverRemoved ==
    /\ [][\A d \in Daemons : Keys(table[d]) \subseteq Keys(table'[d])]_vars
    /\ [][\A c \in Conns :
             ListStep(c) =>
                \A n \in Keys(table[cdaemon[c]]) :
                   \E info \in cresp'[c].infos :
                      /\ info.name = n
                      /\ info.status = table[cdaemon[c]][n].status]_vars

\* a List shows web, which a Stop has stopped, as Stopped while the daemon is
\* in its accept loop
C36_Witness ==
    \E c \in Conns :
        /\ cpc[c] = "respond"
        /\ creq[c] = "List"
        /\ dpc[cdaemon[c]] = "loop"
        /\ lastMut[cdaemon[c]].stop
        /\ \E info \in cresp[c].infos :
              info.name = "web" /\ info.status = "Stopped"

\* --------------------------------------------------------------------- C37
\* no Start, Stop or Restart of daemon d and no shutdown pass is between
\* taking and releasing the write lock
NoWriter(d) ==
    /\ dpc[d] = "loop"
    /\ \A x \in Conns : cdaemon[x] = d => cpc[x] # "run"

\* C37: a Log connection that is reading or following the log files does not
\* hold the table lock; while a follow stream is active, in a poll or in its
\* sleep, a request read on another connection takes the lock at once unless
\* a Start, Stop or Restart or the shutdown pass holds it; and every Start,
\* Stop and Restart that took the lock before the shutdown pass returns its
\* response
C37_FollowBlocksNoRequest ==
    /\ [](\A c \in Conns :
             cpc[c] \in {"log_hist", "follow_init", "follow_poll",
                         "follow_sleep"} => lock[cdaemon[c]] # c)
    /\ [](\A c, b \in Conns :
             (/\ Following(c)
              /\ Running(b, "accepted")
              /\ cdaemon[b] = cdaemon[c]
              /\ NoWriter(cdaemon[c])) =>
                /\ ENABLED dispatch_list(b)
                /\ ENABLED handle_start_begin(b, Some(<<"web">>))
                /\ ENABLED handle_stop_begin(b, NoNames)
                /\ ENABLED handle_restart_begin(b, NoNames))
    /\ \A b \in Conns :
          (/\ cpc[b] = "run"
           /\ dpc[cdaemon[b]] \in {"loop", "shut_lock"}
           /\ \E c \in Conns : Following(c))
             ~> (cpc[b] = "respond")

\* a Stop on one connection holds the write lock and has stopped web while a
\* follow stream on another connection is in its poll loop
C37_Witness ==
    \E c, b \in Conns :
        /\ Following(c)
        /\ Holds(b)
        /\ work[cdaemon[b]].op = "Stop"
        /\ work[cdaemon[b]].acc = <<"web">>
        /\ cdaemon[b] = cdaemon[c]

\* --------------------------------------------------------------------- C38
\* the handler task of connection c ends with an error in this step
HandlerFails(c) == cpc[c] # "failed" /\ cpc'[c] = "failed"

\* C38: the step in which a handler fails changes nothing but that
\* connection: the main task stays where it is, the shutdown watch, the
\* table, its lock and the children are untouched and every other connection
\* is as before; a failed handler never holds the lock; and while the daemon
\* is in its accept loop with the endpoint bound the next connection is
\* accepted whatever has failed before
C38_HandlerFailureIsolated ==
    /\ [][\A c \in Conns :
             HandlerFails(c) =>
                /\ dpc' = dpc
                /\ shutdown' = shutdown
                /\ table' = table
                /\ lock' = lock
                /\ work' = work
                /\ child' = child
                /\ pidFile' = pidFile /\ sockFile' = sockFile
                /\ \A b \in Conns \ {c} :
                      /\ cpc'[b] = cpc[b]
                      /\ cresp'[b] = cresp[b]
                      /\ out'[b] = out[b]]_vars
    /\ [](\A c \in Conns :
             cpc[c] = "failed" => lock[cdaemon[c]] # c)
    /\ [](\A d \in MainDaemons, b \in Conns :
             (/\ dpc[d] = "loop"
              /\ sockFile = d
              /\ cpc[b] = "idle"
              /\ \A a \in Conns : a < b => cpc[a] \in {"done", "failed"}) =>
                ENABLED accept(d, b))

\* after the handlers of two connections failed, one on a line that does not
\* decode and one on an I/O error after its Start, a third connection has its
\* List answered with the processes of that Start
C38_Witness ==
    \E a, b, c \in Conns :
        /\ cpc[a] = "failed" /\ creq[a] \in BadLines
        /\ cpc[b] = "failed" /\ creq[b] = "Start"
        /\ cpc[c] = "respond" /\ creq[c] = "List"
        /\ a < c /\ b < c
        /\ dpc[cdaemon[c]] = "loop"
        /\ ~shutdown[cdaemon[c]]
        /\ { i.name : i \in cresp[c].infos } = Manifest

\* --------------------------------------------------------------------- C39
\* what run returns when it finds a daemon running: the bail of the guard,
\* or AlreadyRunning from the write of the PID file
Rejections == {MsgAlreadyRunning, "AlreadyRunning"}

\* run of daemon d returns in this step because a daemon is running
Rejected(d) ==
    dpc[d] # "returned" /\ dpc'[d] = "returned" /\ dres'[d] \in Rejections

\* C39: the step in which a run call is rejected leaves the PID file with the
\* PID of the live daemon, leaves the endpoint file, and changes nothing of
\* the live daemon, its table or its connections; a rejected call holds
\* neither file afterwards
C39_RejectedRunNoEffect ==
    /\ [][\A d \in Daemons :
             Rejected(d) =>
                /\ pidFile \in Daemons \ {d}
                /\ Alive(pidFile)
                /\ pidFile' = pidFile
                /\ sockFile' = sockFile
                /\ \A e \in Daemons \ {d} : dpc'[e] = dpc[e] /\ dres'[e] = dres[e]
                /\ UNCHANGED << table, lock, work, child, shutdown, cpc,
                                creq, cdaemon, cresp >>]_vars
    /\ [](\A d \in Daemons :
             (dpc[d] = "returned" /\ dres[d] \in Rejections) =>
                pidFile # d /\ sockFile # d)
    /\ [](\A d \in Daemons, c \in Conns :
             (/\ dpc[d] = "loop"
              /\ sockFile = d
              /\ cpc[c] = "idle"
              /\ \A a \in Conns : a < c => cpc[a] = "done") =>
                ENABLED accept(d, c))

\* the second run call was rejected by the guard while the first daemon
\* serves: both files are the first daemon's and a List of it is answered
C39_Witness ==
    /\ dpc[2] = "returned"
    /\ dres[2] = MsgAlreadyRunning
    /\ dpc[1] = "loop"
    /\ pidFile = 1
    /\ sockFile = 1
    /\ \E c \in Conns :
          /\ cdaemon[c] = 1
          /\ cpc[c] = "respond"
          /\ creq[c] = "List"

\* --------------------------------------------------------------------- C40
\* C40: every Stop and Restart that holds the write lock before the shutdown
\* pass returns its response and has released the lock then, and every
\* shutdown pass ends with the lock released, also when the children never
\* exit on SIGTERM; a graceful_stop that is past its deadline has sent
\* SIGKILL to a child that had been sent SIGTERM, and that child runs no more
C40_GracefulStopTerminates ==
    /\ \A c \in Conns :
          (/\ Holds(c)
           /\ work[cdaemon[c]].op \in {"Stop", "Restart"}
           /\ dpc[cdaemon[c]] \in {"loop", "shut_lock"})
             ~> (cpc[c] = "respond" /\ lock[cdaemon[c]] # c)
    /\ \A d \in MainDaemons :
          (dpc[d] = "shut_stop") ~> (dpc[d] = "rm_sock" /\ lock[d] = Free)
    /\ [](\A d \in MainDaemons :
             (lock[d] # Free /\ work[d].gs = "kill") =>
                LET ch == child[table[d][work[d].targets[work[d].i]].pid]
                IN  /\ ch.st # "running"
                    /\ Len(ch.sigs) >= 2
                    /\ ch.sigs[Len(ch.sigs) - 1] = "TERM"
                    /\ ch.sigs[Len(ch.sigs)] = "KILL")

\* a Stop holds the lock past the deadline of web's graceful_stop: web was
\* sent SIGTERM, kept running and was then sent SIGKILL
C40_Witness ==
    \E c \in Conns :
        /\ Holds(c)
        /\ work[cdaemon[c]].op = "Stop"
        /\ work[cdaemon[c]].gs = "kill"
        /\ child[table[cdaemon[c]]["web"].pid].sigs = <<"TERM", "KILL">>
        /\ child[table[cdaemon[c]]["web"].pid].st = "zombie"
====
